---- MODULE Spec2Model ----
(***************************************************************************)
(* A model of the audio-steganography methods (encode / decode over a      *)
(* shared signal and bit-buffer contract) and of the numeric primitives    *)
(* they are built from.                                                    *)
(*                                                                         *)
(* A method object is constructed over a source signal and a secret, then  *)
(* encode() or decode() is called on it.  Every specification below draws  *)
(* the inputs of one method in its initial states and applies the method's *)
(* operations as actions.                                                  *)
(*                                                                         *)
(* Samples of integer (and reinterpreted float) signals are modelled by    *)
(* their two's complement bit pattern, a natural number below 2^bits.      *)
(***************************************************************************)
EXTENDS Integers, Sequences, FiniteSets, TLC

VARIABLES
    method,             \* the MethodEnum tag of the object
    pc,                 \* position of the caller: "new", "constructed", "encoded", "decoded"
    source_dtype,       \* dtype of _source_data
    source_data,        \* MethodBase._source_data
    secret_dtype,       \* dtype of the secret handed to the object
    secret_data,        \* the secret handed to the object (bits)
    _secret_data,       \* MethodBase._secret_data
    opts,               \* keyword arguments of encode()/decode()
    encoded,            \* first element of encode()'s return value
    encoded_dtype,      \* its dtype
    additional_output,  \* second element of encode()'s return value
    decoded,            \* first element of decode()'s return value
    raised,             \* the exception the last call raised, "" when none
    facade,             \* MethodFacade's fields / the arguments main() parsed
    exists,             \* the paths os.path.exists() answers True for
    written,            \* the paths the run has written
    trace,              \* the steps the run has taken, in order
    args,               \* the arguments of a call of an audio_utils function
    returned,           \* what that call returned or raised
    evaluation,         \* the local variables of evaluate_method()
    pool                \* the tasks of the evaluation's multiprocessing.Pool

vars == <<method, pc, source_dtype, source_data, secret_dtype, secret_data,
          _secret_data, opts, encoded, encoded_dtype, additional_output,
          decoded, raised, facade, exists, written, trace, args,
          returned, evaluation, pool>>

facade_vars == <<facade, exists, written, trace>>
util_vars == <<args, returned, evaluation, pool>>

\* No evaluation runs.
NoEvaluation ==
    /\ evaluation = <<>>
    /\ pool = <<>>

\* No audio_utils function is called on its own.
NoUtil ==
    /\ args = <<>>
    /\ returned = <<>>
    /\ NoEvaluation

\* A method object used directly: no facade, no file is touched.
NoFacade ==
    /\ facade = <<>>
    /\ exists = {}
    /\ written = {}
    /\ trace = <<>>
    /\ NoUtil

(***************************************************************************)
(* Bounds of the model.                                                    *)
(***************************************************************************)
MaxSmallCover == 3      \* covers of 0..MaxSmallCover samples, besides the long ones
MaxSecretLen == 10      \* secrets of 0..MaxSecretLen bits
MaxDecodeLen == 5       \* decode() is called with l in 0..MaxDecodeLen
PatternBits == 16       \* sample bit patterns are drawn below 2^PatternBits

(***************************************************************************)
(* Arithmetic helpers standing for Python / NumPy arithmetic.              *)
(***************************************************************************)
Min(a, b) == IF a < b THEN a ELSE b
Max(a, b) == IF a > b THEN a ELSE b
Pow2(n) == 2 ^ n
CeilDiv(a, b) == (a + b - 1) \div b

RECURSIVE Concat(_)
Concat(ss) == IF ss = <<>> THEN <<>> ELSE Head(ss) \o Concat(Tail(ss))

Take(s, n) == SubSeq(s, 1, Min(Max(n, 0), Len(s)))
Drop(s, n) == SubSeq(s, Min(Max(n, 0), Len(s)) + 1, Len(s))
Zeros(n) == [i \in 1..n |-> 0]

\* Python's None, and an optional integer argument that is given
None == "None"
NoInt == <<>>
Some(n) == <<n>>
NoResult == <<>>

(***************************************************************************)
(* Exceptions a call can raise.                                            *)
(***************************************************************************)
NoError == ""
ValueError == "ValueError"
TypeError == "TypeError"
ZeroDivisionError == "ZeroDivisionError"
IndexError == "IndexError"
SecretSizeTooLarge == "SecretSizeTooLarge"

(***************************************************************************)
(* Sample dtypes (spec 3, Signal) and numpy.iinfo(dtype).bits.             *)
(***************************************************************************)
IntDtypes == {"uint8", "int16", "int32", "int64"}
FloatDtypes == {"float16", "float32", "float64"}
Dtypes == IntDtypes \cup FloatDtypes

\* lsb.py: the raw-bytes reinterpretation table of float covers
dtype_conv ==
    [dt \in FloatDtypes |->
        CASE dt = "float64" -> "int64"
          [] dt = "float32" -> "int32"
          [] dt = "float16" -> "int16"]

iinfo_bits(dt) ==
    CASE dt \in {"uint8", "int8"} -> 8
      [] dt = "int16" -> 16
      [] dt = "int32" -> 32
      [] dt = "int64" -> 64

itemsize_bits(dt) ==
    IF dt \in FloatDtypes THEN iinfo_bits(dtype_conv[dt]) ELSE iinfo_bits(dt)

int_dtype_of_bits(b) ==
    CASE b = 8 -> "int8" [] b = 16 -> "int16" [] b = 32 -> "int32" [] b = 64 -> "int64"

(***************************************************************************)
(* Bit operations on sample patterns.  Patterns are below 2^PatternBits,   *)
(* so their bits from PatternBits upwards are zero.                        *)
(***************************************************************************)
\* x & (2^d - 1)
LowBits(x, d) == IF d >= PatternBits THEN x ELSE x % Pow2(d)
\* x & ~(2^d - 1), within the sample's own width
HighBits(x, d) == x - LowBits(x, d)

RECURSIVE bitwise_or(_, _)
bitwise_or(a, b) ==
    IF a = 0 THEN b
    ELSE IF b = 0 THEN a
    ELSE Max(a % 2, b % 2) + 2 * bitwise_or(a \div 2, b \div 2)

\* ndarray.astype(numpy.uint8) of a non-negative integer
astype_uint8(x) == x % 256

(***************************************************************************)
(* audio_utils.py: segment splitters (numpy.array_split underneath).       *)
(***************************************************************************)
\* numpy.array_split(ary, n) for n >= 1: the first len % n sections hold
\* len // n + 1 elements, the others len // n
array_split(ary, n) ==
    LET each == Len(ary) \div n
        extras == Len(ary) % n
        start(k) == (k - 1) * each + Min(k - 1, extras)
    IN  [k \in 1..n |-> SubSeq(ary, start(k) + 1, start(k + 1))]

split_to_segments_of_approx_len_n(input, n) ==
    IF Len(input) = 0 THEN << <<>> >>
    ELSE array_split(input, CeilDiv(Len(input), n))

(***************************************************************************)
(* numpy.packbits / numpy.unpackbits with bitorder='little'.               *)
(***************************************************************************)
RECURSIVE bits_value_little(_)
bits_value_little(bits) ==
    IF bits = <<>> THEN 0 ELSE Head(bits) + 2 * bits_value_little(Tail(bits))

\* one row of bits -> ceil(len / 8) bytes
packbits_little(row) ==
    [k \in 1..CeilDiv(Len(row), 8) |->
        bits_value_little(SubSeq(row, 8 * (k - 1) + 1, Min(8 * k, Len(row))))]

\* one byte -> 8 bits
unpackbits_little(byte) == [j \in 1..8 |-> (byte \div Pow2(j - 1)) % 2]

(***************************************************************************)
(* The result of a call: what it raised, or what it returned.              *)
(***************************************************************************)
Raise(exc) ==
    [raised |-> exc, output |-> NoResult, output_dtype |-> None,
     additional_output |-> NoResult]
Return(out, dt, extra) ==
    [raised |-> NoError, output |-> out, output_dtype |-> dt,
     additional_output |-> extra]

(***************************************************************************)
(* methods/lsb.py: LSB.encode                                              *)
(***************************************************************************)
\* numpy.pad(secret, (0, ceil(len / depth) * depth - len))
pad_to_multiple(secret, n) ==
    secret \o Zeros(CeilDiv(Len(secret), n) * n - Len(secret))

\* numpy.random.randint(0, 2 ** depth, size) draws int64 values: it raises
\* ValueError('high is out of bounds for int64') when 2 ** depth - 1 does
\* not fit int64
randint_raises(depth, size) == size > 0 /\ depth > 63

\* the i-th value of one draw of randint(0, 2 ** depth, size); the draw is
\* named by seed
randint_value(seed, i, depth) ==
    (seed * i + seed) % Pow2(Min(depth, PatternBits))

\* the dtype of numpy.bitwise_and(source, numpy.bitwise_not(2 ** depth - 1))
\* under NumPy's value-based promotion of the scalar operand
bitwise_and_dtype(dt, depth) ==
    LET scalar_bits == IF depth <= 7 THEN 8
                       ELSE IF depth <= 15 THEN 16
                       ELSE IF depth <= 31 THEN 32
                       ELSE 64
    IN  IF depth >= 64 THEN dt     \* ~(2^64 - 1) is the uint64 scalar 0
        ELSE IF dt = "uint8" THEN int_dtype_of_bits(Max(16, scalar_bits))
        ELSE int_dtype_of_bits(Max(iinfo_bits(dt), scalar_bits))

\* is the sample pattern x of a width-bits signed dtype negative
is_negative(x, dt) == dt # "uint8" /\ iinfo_bits(dt) <= PatternBits
                      /\ x >= Pow2(iinfo_bits(dt) - 1)

\* numpy.frombuffer(encoded, dtype=<float dtype of `bits` bits>): the items
\* of an integer array of item_bits bits read as items of `bits` bits; the
\* upper half of a widened item is the sign of the cover sample
frombuffer(items, signs, item_bits, bits) ==
    IF item_bits = bits THEN items
    ELSE Concat([i \in 1..Len(items) |->
            <<items[i], IF signs[i] THEN Pow2(bits) - 1 ELSE 0>>])

LSB_secret_chunks(secret, depth) ==
    split_to_segments_of_approx_len_n(pad_to_multiple(secret, depth), depth)

LSB_encode(source_in, dt, secret_in, depth, only_needed, seed) ==
    IF Len(secret_in) = 0
    THEN Return(source_in, dt, [l |-> 0, depth |-> depth])
    ELSE
    LET int_dt == IF dt \in DOMAIN dtype_conv THEN dtype_conv[dt] ELSE dt
        bits == iinfo_bits(int_dt)
    IN
    IF depth < 1 \/ depth > bits THEN Raise(ValueError)
    ELSE
    LET chunks == IF depth > 1 THEN LSB_secret_chunks(secret_in, depth)
                  ELSE <<>>
        \* secret.size at the capacity check: the bits of all chunks
        secret_size == IF depth > 1 THEN Len(Concat(chunks)) ELSE Len(secret_in)
    IN
    IF secret_size > Len(source_in) THEN Raise(SecretSizeTooLarge)
    ELSE
    LET secret == IF depth > 1
                  THEN Concat([k \in 1..Len(chunks) |-> packbits_little(chunks[k])])
                  ELSE secret_in
        rest == Len(source_in) - Len(secret)
    IN
    IF randint_raises(depth, rest) THEN Raise(ValueError)
    ELSE
    LET secret_padded_to_source ==
            secret \o [i \in 1..rest |-> astype_uint8(randint_value(seed, i, depth))]
        n == IF only_needed THEN Len(secret) ELSE Len(secret_padded_to_source)
        items == [i \in 1..n |->
                    bitwise_or(HighBits(source_in[i], depth),
                               secret_padded_to_source[i])]
        signs == [i \in 1..n |-> is_negative(source_in[i], int_dt) /\ depth >= bits]
        item_dt == bitwise_and_dtype(int_dt, depth)
        enc == IF dt \in DOMAIN dtype_conv
               THEN frombuffer(items, signs, iinfo_bits(item_dt), bits)
               ELSE items
        enc_dt == IF dt \in DOMAIN dtype_conv THEN dt ELSE item_dt
        out == IF only_needed THEN enc \o Drop(source_in, Len(secret)) ELSE enc
    IN  Return(out, enc_dt, [l |-> Len(secret_in), depth |-> depth])

(***************************************************************************)
(* methods/lsb.py: LSB.decode                                              *)
(***************************************************************************)
LSB_decode(source_in, dt, depth, l) ==
    LET int_dt == IF dt \in DOMAIN dtype_conv THEN dtype_conv[dt] ELSE dt
        bits == iinfo_bits(int_dt)
    IN
    IF depth < 1 \/ depth > bits THEN Raise(ValueError)
    ELSE
    LET len == IF l # NoInt THEN l[1] ELSE Len(source_in)
        lsb == [i \in 1..Min(len, Len(source_in)) |->
                    astype_uint8(LowBits(source_in[i], depth))]
        unpacked == Concat([i \in 1..Len(lsb) |-> unpackbits_little(lsb[i])])
        chunk_size == CeilDiv(depth, 8) * 8
        padded == pad_to_multiple(unpacked, chunk_size)
        rows == split_to_segments_of_approx_len_n(padded, chunk_size)
        unpacked_split == [k \in 1..Len(rows) |-> Take(rows[k], depth)]
    IN  Return(Take(Concat(unpacked_split), len), "uint8", NoResult)

(***************************************************************************)
(* Inputs.                                                                 *)
(***************************************************************************)
\* tests_common.py: secret_uint8_42, the bits of "42"
secret_uint8_42 == <<0,0,1,1,0,1,0,0,0,0,1,1,0,0,1,0>>
\* its complement, so that every bit position is seen with both values
secret_not_42 == [i \in 1..Len(secret_uint8_42) |-> 1 - secret_uint8_42[i]]

Secrets ==
    { Take(p, n) : p \in {secret_uint8_42, secret_not_42},
                   n \in 0..Min(MaxSecretLen, Len(secret_uint8_42)) }

MethodTags == {"lsb", "echo_single", "echo_bipolar", "echo_bf",
               "echo_bipolar_bf", "phase", "dsss", "silence_interval",
               "tone_insertion"}

\* sample patterns of a cover of the given dtype
SampleBits(dt) == Min(itemsize_bits(dt), PatternBits)
CoverKinds == {"ones", "ramp"}
CoverSample(kind, i, dt) ==
    IF kind = "ones" THEN Pow2(SampleBits(dt)) - 1
    ELSE (i * 12345 + 6789) % Pow2(SampleBits(dt))
Cover(kind, n, dt) == [i \in 1..n |-> CoverSample(kind, i, dt)]

\* LSB covers: the short ones, and covers of one and of two times as many
\* samples as the dtype has bits (room for chunks of the largest depth)
LSBCoverLens(dt) ==
    (0..MaxSmallCover) \cup {itemsize_bits(dt), 2 * itemsize_bits(dt)}

RandSeeds == {1, 7}

NoOpts == [none |-> TRUE]

(***************************************************************************)
(* methods/method_base.py: MethodBase.__init__ and set_secret_data.        *)
(* The object keeps the source; the secret handed in is stored as it is.   *)
(***************************************************************************)
MethodBase_init(source) ==
    [_source_data |-> source, _secret_data |-> <<>>, raised |-> NoError]

set_secret_data(obj, secret, secret_dt) ==
    [obj EXCEPT !._secret_data = secret]

Construct ==
    /\ pc = "new"
    /\ LET obj == set_secret_data(MethodBase_init(source_data),
                                  secret_data, secret_dtype)
       IN  /\ _secret_data' = obj._secret_data
           /\ raised' = obj.raised
    /\ pc' = "constructed"
    /\ UNCHANGED <<facade_vars, util_vars, method, source_dtype, source_data, secret_dtype, secret_data,
                   opts, encoded, encoded_dtype, additional_output, decoded>>

(***************************************************************************)
(* The LSB method: encode, decode of the stego, decode of any signal.      *)
(***************************************************************************)
StoreEncode(r) ==
    /\ encoded' = r.output
    /\ encoded_dtype' = r.output_dtype
    /\ additional_output' = r.additional_output
    /\ raised' = r.raised

LSBEncode ==
    /\ pc = "constructed" /\ method = "lsb" /\ raised = NoError
    /\ \E seed \in RandSeeds :
         StoreEncode(LSB_encode(source_data, source_dtype, _secret_data,
                                opts.depth, opts.only_needed, seed))
    /\ pc' = "encoded"
    /\ UNCHANGED <<facade_vars, util_vars, method, source_dtype, source_data, secret_dtype, secret_data,
                   _secret_data, opts, decoded>>

\* LSB(encoded).decode(depth=depth, l=l) with the side-params of encode
LSBDecodeStego ==
    /\ pc = "encoded" /\ method = "lsb" /\ raised = NoError
    /\ LET r == LSB_decode(encoded, encoded_dtype, additional_output.depth,
                           Some(additional_output.l))
       IN  decoded' = r.output /\ raised' = r.raised
    /\ pc' = "decoded"
    /\ UNCHANGED <<facade_vars, util_vars, method, source_dtype, source_data, secret_dtype, secret_data,
                   _secret_data, opts, encoded, encoded_dtype, additional_output>>

\* LSB(source).decode(depth=depth, l=l) of any signal, for any l
LSBDecodeAny ==
    /\ pc = "constructed" /\ method = "lsb" /\ raised = NoError
    /\ Len(_secret_data) = 0
    /\ \E l \in 0..MaxDecodeLen :
        /\ LET r == LSB_decode(source_data, source_dtype, opts.depth, Some(l))
           IN  decoded' = r.output /\ raised' = r.raised
        /\ opts' = [opts EXCEPT !.l = Some(l)]
    /\ pc' = "decoded_any"
    /\ UNCHANGED <<facade_vars, util_vars, method, source_dtype, source_data, secret_dtype, secret_data,
                   _secret_data, encoded, encoded_dtype, additional_output>>

InitLSB ==
    /\ NoFacade
    /\ method = "lsb"
    /\ pc = "new"
    /\ source_dtype \in Dtypes
    /\ \E kind \in CoverKinds, n \in LSBCoverLens(source_dtype) :
         source_data = Cover(kind, n, source_dtype)
    /\ secret_dtype = "uint8"
    /\ secret_data \in Secrets
    /\ _secret_data = <<>>
    /\ \E depth \in 0..(itemsize_bits(source_dtype) + 1), only_needed \in BOOLEAN :
         opts = [depth |-> depth, only_needed |-> only_needed, l |-> NoInt]
    /\ encoded = NoResult
    /\ encoded_dtype = None
    /\ additional_output = NoResult
    /\ decoded = NoResult
    /\ raised = NoError

NextLSB == Construct \/ LSBEncode \/ LSBDecodeStego \/ LSBDecodeAny

SpecLSB == InitLSB /\ [][NextLSB]_vars

(***************************************************************************)
(* Claims about the LSB method.                                            *)
(***************************************************************************)
\* the precondition of the LSB round trip: an integer cover, a valid depth,
\* a non-empty secret whose length padded to a multiple of depth fits
LSBRoundTripPre ==
    /\ method = "lsb"
    /\ source_dtype \in IntDtypes
    /\ Len(_secret_data) > 0
    /\ opts.depth >= 1 /\ opts.depth <= iinfo_bits(source_dtype)
    /\ CeilDiv(Len(_secret_data), opts.depth) * opts.depth <= Len(source_data)

\* C1: LSB round trip. For every integer cover, every valid depth, both
\* only_needed settings and every non-empty secret that fits, encode returns
\* a stego and decoding it with the same depth and l returns the secret.
C1_LSBRoundTrip ==
    (LSBRoundTripPre /\ pc \in {"encoded", "decoded"}) =>
        /\ raised = NoError
        /\ pc = "decoded" => decoded = _secret_data

\* the same with depth 64 left out
C1_LSBRoundTripBelow64 ==
    (LSBRoundTripPre /\ opts.depth < 64 /\ pc \in {"encoded", "decoded"}) =>
        /\ raised = NoError
        /\ pc = "decoded" => decoded = _secret_data

\* a depth the cover's (reinterpreted integer) dtype provides
ValidDepth == opts.depth >= 1 /\ opts.depth <= itemsize_bits(source_dtype)

\* C5: LSB capacity. For a non-empty secret of l bits and a valid depth d,
\* encode raises SecretSizeTooLarge if and only if ceil(l / d) exceeds the
\* cover length, and succeeds whenever ceil(l / d) <= cover length.
C5_LSBCapacity ==
    (method = "lsb" /\ pc = "encoded" /\ Len(_secret_data) > 0 /\ ValidDepth) =>
        LET chunks == CeilDiv(Len(_secret_data), opts.depth)
        IN  /\ (raised = SecretSizeTooLarge) <=> (chunks > Len(source_data))
            /\ chunks <= Len(source_data) => raised = NoError

\* C7: LSB depth validation. For every cover and every secret, the empty
\* one included, encode and decode raise ValueError whenever depth < 1 or
\* depth > the bits of the cover's dtype, before any capacity check.
C7_LSBDepthValidation ==
    (method = "lsb" /\ pc \in {"encoded", "decoded_any"} /\ ~ValidDepth) =>
        raised = ValueError

(***************************************************************************)
(* audio_utils.py: split_to_segments_of_len_n and consecutive_values.      *)
(***************************************************************************)
\* numpy.array_split raises ValueError for 0 sections, which is what
\* int(len(input)/n) is for a non-empty input shorter than n
\* (len(input)/n raises ZeroDivisionError for n = 0)
split_to_segments_of_len_n(input, n) ==
    IF Len(input) = 0
    THEN [raised |-> NoError, out |-> <<>>, rest |-> <<>>]
    ELSE IF n = 0
    THEN [raised |-> ZeroDivisionError, out |-> <<>>, rest |-> <<>>]
    ELSE IF Len(input) \div n = 0
    THEN [raised |-> ValueError, out |-> <<>>, rest |-> <<>>]
    ELSE [raised |-> NoError,
          out |-> array_split(Take(input, (Len(input) \div n) * n),
                              Len(input) \div n),
          rest |-> Drop(input, (Len(input) \div n) * n)]

\* numpy.nonzero(d)[0]: the 0-based indices of the true elements, ascending
nonzero(d) ==
    SelectSeq([i \in 1..Len(d) |-> i - 1], LAMBDA k : d[k + 1])

\* numpy.diff of a sequence of integers
np_diff(a) == [k \in 1..(Len(a) - 1) |-> a[k + 1] - a[k]]

\* consecutive_values without input.size appended before the last numpy.diff
consecutive_values_no_append(input) ==
    IF Len(input) = 0
    THEN [indices |-> <<>>, lengths |-> <<>>]
    ELSE LET diff == [i \in 1..Len(input) |->
                         IF i = 1 THEN TRUE ELSE input[i] # input[i - 1]]
         IN  [indices |-> nonzero(diff),
              lengths |-> np_diff(nonzero(diff))]

consecutive_values(input) ==
    IF Len(input) = 0
    THEN [indices |-> <<>>, lengths |-> <<>>]
    ELSE LET diff == [i \in 1..Len(input) |->
                         IF i = 1 THEN TRUE ELSE input[i] # input[i - 1]]
         IN  [indices |-> nonzero(diff),
              lengths |-> np_diff(Append(nonzero(diff), Len(input)))]

(***************************************************************************)
(* methods/silence_interval.py                                             *)
(***************************************************************************)
abs(x) == IF x < 0 THEN -x ELSE x

\* ndarray.max() of a non-empty array
RECURSIVE ndarray_max_range(_, _, _)
ndarray_max_range(a, lo, hi) ==
    IF lo = hi THEN a[lo]
    ELSE LET mid == (lo + hi) \div 2
         IN  Max(ndarray_max_range(a, lo, mid), ndarray_max_range(a, mid + 1, hi))
ndarray_max(a) == ndarray_max_range(a, 1, Len(a))

\* np.abs(source) <= 0.15 * np.abs(source).max(), for a non-empty source
silence_mask(source) ==
    LET peak == ndarray_max([i \in 1..Len(source) |-> abs(source[i])])
    IN  [i \in 1..Len(source) |-> 100 * abs(source[i]) <= 15 * peak]

\* numpy.split(source, indices[1:])
np_split(source, indices) ==
    [k \in 1..Len(indices) |->
        SubSeq(source, indices[k] + 1,
               IF k < Len(indices) THEN indices[k + 1] ELSE Len(source))]

\* the secret as one value 0..15 for every 4 bits
silence_secret_nibbles(secret) ==
    LET rows == split_to_segments_of_len_n(pad_to_multiple(secret, 4), 4).out
    IN  [k \in 1..Len(rows) |-> packbits_little(rows[k])[1]]

\* a cut that keeps the low 3 bits of the length only
silence_new_len_mod8(len, value) == len - ((len - value) % 8)

\* the length the encoder cuts a run of length len to, to carry value
silence_new_len(len, value) == len - ((len - value) % 16)

\* the loop over the runs: the first runs that are long enough, before and
\* after the cut, carry the values of the secret in turn
RECURSIVE silence_shorten(_, _, _, _)
silence_shorten(segments, secret, secret_idx, min_silence_len) ==
    IF segments = <<>> \/ secret_idx = Len(secret)
    THEN [segments |-> segments, secret_idx |-> secret_idx]
    ELSE LET segment == Head(segments)
             new_len == silence_new_len(Len(segment), secret[secret_idx + 1])
             skip == Len(segment) < min_silence_len \/ new_len < min_silence_len
             rest == silence_shorten(Tail(segments), secret,
                                     IF skip THEN secret_idx ELSE secret_idx + 1,
                                     min_silence_len)
         IN  [segments |-> <<IF skip THEN segment ELSE Take(segment, new_len)>>
                               \o rest.segments,
              secret_idx |-> rest.secret_idx]

SilenceInterval_encode(source, dt, secret_in, min_silence_len) ==
    IF Len(secret_in) = 0
    THEN Return(source, dt, [l |-> 0])
    ELSE IF Len(source) = 0
    THEN Raise(ValueError)      \* max() of an empty array
    ELSE
    LET silence == consecutive_values(silence_mask(source))
        secret == silence_secret_nibbles(secret_in)
        capacity == Len(SelectSeq(silence.lengths,
                                  LAMBDA len : len > min_silence_len))
        done == silence_shorten(np_split(source, silence.indices), secret, 0,
                                min_silence_len)
    IN  IF capacity < Len(secret)
        THEN Raise(SecretSizeTooLarge)
        ELSE IF done.secret_idx # Len(secret)
        THEN Raise(SecretSizeTooLarge)
        ELSE Return(Concat(done.segments), dt, [l |-> Len(secret_in)])

SilenceInterval_decode(source, l, min_silence_len) ==
    IF l < 1
    THEN Return(<<>>, "float64", NoResult)
    ELSE IF Len(source) = 0
    THEN Raise(ValueError)      \* max() of an empty array
    ELSE
    LET silence_lens == consecutive_values(silence_mask(source)).lengths
        carriers == SelectSeq(silence_lens, LAMBDA len : len >= min_silence_len)
        values == Take(carriers, CeilDiv(Len(source), 4))
        low4(v) == Take(unpackbits_little(astype_uint8(v % 16)), 4)
    IN  Return(Take(Concat([k \in 1..Len(values) |-> low4(values[k])]), l),
               "uint8", NoResult)

(***************************************************************************)
(* The silence interval method over covers built from runs of quiet and    *)
(* loud samples.                                                           *)
(***************************************************************************)
MaxRuns == 3                        \* covers of 0..MaxRuns runs
RunLens == {1, 2, 3, 17, 18, 20}    \* lengths of a run
MinSilenceLens == {2, 3}            \* values of min_silence_len
QuietSample == 0
LoudSample == 10

RunLists == UNION {[1..n -> RunLens] : n \in 0..MaxRuns}

\* the samples of a cover whose runs have the given lengths and alternate
\* between quiet and loud
RECURSIVE RunsCover(_, _)
RunsCover(runs, quiet) ==
    IF runs = <<>> THEN <<>>
    ELSE [i \in 1..Head(runs) |-> IF quiet THEN QuietSample ELSE LoudSample]
             \o RunsCover(Tail(runs), ~quiet)

SilenceEncode ==
    /\ pc = "constructed" /\ method = "silence_interval" /\ raised = NoError
    /\ StoreEncode(SilenceInterval_encode(source_data, source_dtype,
                                          _secret_data, opts.min_silence_len))
    /\ pc' = "encoded"
    /\ UNCHANGED <<facade_vars, util_vars, method, source_dtype, source_data, secret_dtype, secret_data,
                   _secret_data, opts, decoded>>

\* SilenceInterval(encoded).decode(l, min_silence_len) with encode's l
SilenceDecodeStego ==
    /\ pc = "encoded" /\ method = "silence_interval" /\ raised = NoError
    /\ LET r == SilenceInterval_decode(encoded, additional_output.l,
                                       opts.min_silence_len)
       IN  decoded' = r.output /\ raised' = r.raised
    /\ pc' = "decoded"
    /\ UNCHANGED <<facade_vars, util_vars, method, source_dtype, source_data, secret_dtype, secret_data,
                   _secret_data, opts, encoded, encoded_dtype, additional_output>>

\* SilenceInterval(source).decode(l, min_silence_len) of any signal
SilenceDecodeAny ==
    /\ pc = "constructed" /\ method = "silence_interval" /\ raised = NoError
    /\ Len(_secret_data) = 0
    /\ \E l \in 0..MaxDecodeLen :
        /\ LET r == SilenceInterval_decode(source_data, l, opts.min_silence_len)
           IN  decoded' = r.output /\ raised' = r.raised
        /\ opts' = [opts EXCEPT !.l = Some(l)]
    /\ pc' = "decoded_any"
    /\ UNCHANGED <<facade_vars, util_vars, method, source_dtype, source_data, secret_dtype, secret_data,
                   _secret_data, encoded, encoded_dtype, additional_output>>

InitSilence ==
    /\ NoFacade
    /\ method = "silence_interval"
    /\ pc = "new"
    /\ source_dtype \in {"int16", "float64"}
    /\ \E runs \in RunLists, quiet \in BOOLEAN :
         source_data = RunsCover(runs, quiet)
    /\ secret_dtype = "uint8"
    /\ secret_data \in Secrets
    /\ _secret_data = <<>>
    /\ \E m \in MinSilenceLens : opts = [min_silence_len |-> m, l |-> NoInt]
    /\ encoded = NoResult
    /\ encoded_dtype = None
    /\ additional_output = NoResult
    /\ decoded = NoResult
    /\ raised = NoError

NextSilence ==
    Construct \/ SilenceEncode \/ SilenceDecodeStego \/ SilenceDecodeAny

SpecSilence == InitSilence /\ [][NextSilence]_vars

\* C2: whenever SilenceInterval.encode of a non-empty secret succeeds,
\* decoding its stego with l = len(secret) and the same min_silence_len
\* returns exactly the secret.
C2_SilenceRoundTrip ==
    (method = "silence_interval" /\ pc = "decoded" /\ Len(_secret_data) > 0) =>
        /\ raised = NoError
        /\ decoded = _secret_data

\* The round trip of C2 does hold when every run of the cover that is at
\* least min_silence_len long is at least 15 samples longer than that.
SilenceRunsFarFromMin ==
    \/ Len(source_data) = 0
    \/ LET lens == consecutive_values(silence_mask(source_data)).lengths
       IN  \A k \in 1..Len(lens) :
             lens[k] < opts.min_silence_len \/ lens[k] >= opts.min_silence_len + 15
SilenceRoundTripFarFromMin ==
    (method = "silence_interval" /\ pc = "decoded" /\ Len(_secret_data) > 0
        /\ SilenceRunsFarFromMin) =>
        /\ raised = NoError
        /\ decoded = _secret_data

\* C4: encode of a non-empty secret into a cover of length 0 raises
\* SecretSizeTooLarge and nothing else, and returns no stego, for every
\* method and dtype.
C4_EmptyCoverCapacityGuard ==
    (pc = "encoded" /\ Len(source_data) = 0 /\ Len(_secret_data) > 0) =>
        /\ raised = SecretSizeTooLarge
        /\ encoded = NoResult

(***************************************************************************)
(* audio_utils.py: center, normalize, to_dtype.                            *)
(* A float signal is kept exactly, as integer numerators over one common   *)
(* denominator: sample i is num[i] / den.                                  *)
(***************************************************************************)
\* numpy.sum of integers
RECURSIVE np_sum_range(_, _, _)
np_sum_range(a, lo, hi) ==
    IF lo > hi THEN 0
    ELSE IF lo = hi THEN a[lo]
    ELSE LET mid == (lo + hi) \div 2
         IN  np_sum_range(a, lo, mid) + np_sum_range(a, mid + 1, hi)
np_sum(a) == np_sum_range(a, 1, Len(a))

\* input - np.mean(input): (n * input[i] - sum) / n
center(input) ==
    LET n == Len(input)
        total == np_sum(input)
    IN  [num |-> [i \in 1..n |-> n * input[i] - total], den |-> Max(n, 1)]

\* input / np.abs(input).max() unless the signal is empty or all zero
normalize(sig) ==
    LET peak == ndarray_max([i \in 1..Len(sig.num) |-> abs(sig.num[i])])
    IN  IF Len(sig.num) > 0 /\ peak # 0
        THEN [num |-> sig.num, den |-> peak]
        ELSE sig

iinfo_max(dt) ==
    IF dt = "uint8" THEN 255 ELSE Pow2(iinfo_bits(dt) - 1) - 1

\* C-style conversion of num / den to an integer: towards zero
trunc_div(num, den) ==
    IF num >= 0 THEN num \div den ELSE -((-num) \div den)

\* to_dtype of a float signal: scaled by the maximum of an integer dtype and
\* truncated, kept as it is for a float dtype
to_dtype(sig, dt) ==
    [i \in 1..Len(sig.num) |->
        IF dt \in IntDtypes
        THEN trunc_div(sig.num[i] * iinfo_max(dt), sig.den)
        ELSE IF sig.num[i] % sig.den = 0
             THEN sig.num[i] \div sig.den
             ELSE <<sig.num[i], sig.den>>]

(***************************************************************************)
(* methods/tone_insertion.py                                               *)
(* The two tones are sampled sines, which the model does not compute.  It  *)
(* follows the method on the segments its covers have: a segment of equal  *)
(* samples.  After center() such a segment of the cover is all zero, its   *)
(* power is 0, so both amplitudes are sqrt(0) = 0 and the tones add        *)
(* nothing to it.                                                          *)
(***************************************************************************)
segment_len == 705

\* np.sum(np.abs(segment)**2) / segment_len is 0 exactly for a zero segment
segment_power_is_zero(segment) == \A i \in 1..Len(segment) : segment[i] = 0

\* the samples a segment of non-zero power gets are not computed
ToneNotModelled == "sum of the segment and two sines"

\* segments[i] += tone_f0 * f0_amplitudes[bit][i]
\* segments[i] += tone_f1 * f1_amplitudes[bit][i]
add_tones(segment, bit) ==
    IF segment_power_is_zero(segment) THEN segment
    ELSE [i \in 1..Len(segment) |-> ToneNotModelled]

ToneInsertion_encode(source_in, dt, secret) ==
    IF Len(secret) = 0
    THEN Return(source_in, dt, [l |-> 0])
    ELSE
    LET source == normalize(center(source_in))
        split == split_to_segments_of_len_n(source.num, segment_len)
        segments == split.out
        summed == [i \in 1..Len(segments) |->
                      IF i <= Len(secret)
                      THEN add_tones(segments[i], secret[i])
                      ELSE segments[i]]
        encoded_sig == [num |-> Concat(summed) \o split.rest, den |-> source.den]
    IN  IF split.raised # NoError
        THEN Raise(split.raised)
        ELSE IF Len(secret) > Len(segments)
        THEN Raise(SecretSizeTooLarge)
        ELSE Return(to_dtype(encoded_sig, dt), dt,
                    [l |-> Len(secret), f0 |-> "1250.0", f1 |-> "8575.0"])

\* np.sum(segment * tone_f1) / segment_len > np.sum(segment * tone_f0) / segment_len
\* for a segment of equal samples c: c * sum(tone_f1) > c * sum(tone_f0), where
\* sum(tone_f1) is about 0.967 and sum(tone_f0) about 6e-14 for the default
\* frequencies, so the comparison is c > 0
tone_f1_exceeds_tone_f0(segment) == segment[1] > 0

ToneInsertion_decode(source, l) ==
    IF l < 1
    THEN Return(<<>>, "uint8", NoResult)
    ELSE
    LET split == split_to_segments_of_len_n(source, segment_len)
        segments == split.out
    IN  IF split.raised # NoError
        THEN Raise(split.raised)
        ELSE Return([i \in 1..l |->
                        IF i <= Min(l, Len(segments))
                            /\ tone_f1_exceeds_tone_f0(segments[i])
                        THEN 1 ELSE 0],
                    "uint8", NoResult)

(***************************************************************************)
(* The tone insertion method over covers of equal samples (digital         *)
(* silence, or a constant level).                                          *)
(***************************************************************************)
MaxToneSegments == 2        \* covers of up to MaxToneSegments whole segments
ToneCoverLens ==
    {0, 1, segment_len - 1}
        \cup {k * segment_len : k \in 1..MaxToneSegments}
        \cup {k * segment_len + 1 : k \in 1..MaxToneSegments}
ToneCoverLevels == {0, 5}
ToneSecrets == {s \in Secrets : Len(s) <= MaxToneSegments + 1}

ToneEncode ==
    /\ pc = "constructed" /\ method = "tone_insertion" /\ raised = NoError
    /\ StoreEncode(ToneInsertion_encode(source_data, source_dtype, _secret_data))
    /\ pc' = "encoded"
    /\ UNCHANGED <<facade_vars, util_vars, method, source_dtype, source_data, secret_dtype, secret_data,
                   _secret_data, opts, decoded>>

\* ToneInsertion(encoded[0]).decode(encoded[1]['l'])
ToneDecodeStego ==
    /\ pc = "encoded" /\ method = "tone_insertion" /\ raised = NoError
    /\ LET r == ToneInsertion_decode(encoded, additional_output.l)
       IN  decoded' = r.output /\ raised' = r.raised
    /\ pc' = "decoded"
    /\ UNCHANGED <<facade_vars, util_vars, method, source_dtype, source_data, secret_dtype, secret_data,
                   _secret_data, opts, encoded, encoded_dtype, additional_output>>

\* ToneInsertion(source).decode(l) of any signal
ToneDecodeAny ==
    /\ pc = "constructed" /\ method = "tone_insertion" /\ raised = NoError
    /\ Len(_secret_data) = 0
    /\ \E l \in 0..MaxDecodeLen :
        /\ LET r == ToneInsertion_decode(source_data, l)
           IN  decoded' = r.output /\ raised' = r.raised
        /\ opts' = [opts EXCEPT !.l = Some(l)]
    /\ pc' = "decoded_any"
    /\ UNCHANGED <<facade_vars, util_vars, method, source_dtype, source_data, secret_dtype, secret_data,
                   _secret_data, encoded, encoded_dtype, additional_output>>

InitTone ==
    /\ NoFacade
    /\ method = "tone_insertion"
    /\ pc = "new"
    /\ source_dtype \in {"uint8", "int16", "float32", "float64"}
    /\ \E n \in ToneCoverLens, level \in ToneCoverLevels :
         source_data = [i \in 1..n |-> level]
    /\ secret_dtype = "uint8"
    /\ secret_data \in ToneSecrets
    /\ _secret_data = <<>>
    /\ opts = [l |-> NoInt]
    /\ encoded = NoResult
    /\ encoded_dtype = None
    /\ additional_output = NoResult
    /\ decoded = NoResult
    /\ raised = NoError

NextTone == Construct \/ ToneEncode \/ ToneDecodeStego \/ ToneDecodeAny

SpecTone == InitTone /\ [][NextTone]_vars

\* C3: for each signal-processing method (here tone_insertion), every cover
\* and every secret for which encode returns a stego, decoding the stego
\* with the side-params of encode yields exactly the secret.
C3_SignalRoundTrip ==
    (method \in {"echo_single", "echo_bipolar", "echo_bf", "echo_bipolar_bf",
                 "phase", "dsss", "tone_insertion"}
        /\ pc = "decoded") =>
        /\ raised = NoError
        /\ decoded = _secret_data

(***************************************************************************)
(* audio_utils.py: split_to_n_segments.                                    *)
(***************************************************************************)
\* len(input)/n raises ZeroDivisionError for n = 0; numpy.array_split raises
\* ValueError for a negative number of sections
split_to_n_segments_raised(n) ==
    IF n = 0 THEN ZeroDivisionError
    ELSE IF n < 0 THEN ValueError
    ELSE NoError

split_to_n_segments(input, n) ==
    IF split_to_n_segments_raised(n) # NoError
    THEN [raised |-> split_to_n_segments_raised(n), out |-> <<>>, rest |-> <<>>]
    ELSE [raised |-> NoError,
          out |-> array_split(Take(input, (Len(input) \div n) * n), n),
          rest |-> Drop(input, (Len(input) \div n) * n)]

\* the length of the mixer signal of a cover of the given size: the mixer
\* has the length of the cover
mixer_sig_len(secret, size) == size

(***************************************************************************)
(* stat_utils.py: ber_percent.  The float returned is the quotient         *)
(* num / den; the quotient 0 / 0 is nan, which is not a number.            *)
(***************************************************************************)
ber_percent(x, y) ==
    LET n == Min(Len(x), Len(y))
        errors == Cardinality({i \in 1..n : Take(x, n)[i] # Take(y, n)[i]})
    IN  [num |-> errors * 100, den |-> n]

(***************************************************************************)
(* methods/echo_single.py, echo_bipolar.py, echo_bf.py, echo_bipolar_bf.py *)
(* and methods/echo_base.py.                                               *)
(* The echo kernels and the cepstrum are not computed.  The stego of a     *)
(* cover that is all zero is all zero; the samples of any other stego are  *)
(* stood for by EchoSample, which names the delays, alpha and decay_rate   *)
(* the signal was made with, and what decode reads from the cepstrum of a  *)
(* segment is an input of the decode operation (decision).  alpha and      *)
(* decay_rate are in twentieths.                                           *)
(***************************************************************************)
EchoMethods == {"echo_single", "echo_bipolar", "echo_bf", "echo_bipolar_bf"}

default_alpha == 10
default_decay_rate == 17

\* stands for a sample of an echoed signal of a cover that is not all zero;
\* such a signal is not all zero (normalize brings its peak to full scale),
\* and signals made with different parameters differ
EchoSample(d0, d1, alpha, decay_rate) ==
    1 + decay_rate + 32 * (alpha + 32 * (d1 + 2048 * d0))

is_all_zero(signal) == \A i \in 1..Len(signal) : signal[i] = 0

\* source + echoes, centred, normalized and converted to the dtype of the
\* source, for delays shorter than the cover
echo_kernel_len(size, secret) == Min(size, mixer_sig_len(secret, size))

echo_kernel_sum(source, secret, d0, d1, alpha, decay_rate) ==
    LET len == echo_kernel_len(Len(source), secret)
    IN  IF is_all_zero(source)
        THEN to_dtype(normalize(center(Take(source, len))), "float64")
        ELSE [i \in 1..len |-> EchoSample(d0, d1, alpha, decay_rate)]

\* EchoX._encode(d0, d1): whether it returns the source as it is, the
\* side-params it returns, and the whole call
Echo_encode_kernel_skips(cls, secret, d0, d1) ==
    IF cls \in {"echo_single", "echo_bf"}
    THEN Len(secret) = 0 \/ d0 >= d1
    ELSE Len(secret) = 0

Echo_encode_kernel_params(cls, secret, d0, d1) ==
    IF ~Echo_encode_kernel_skips(cls, secret, d0, d1)
    THEN [d0 |-> d0, d1 |-> d1, l |-> Len(secret)]
    ELSE CASE cls = "echo_single" -> [d0 |-> -1, d1 |-> -1, l |-> -1]
           [] cls = "echo_bf" -> [d0 |-> -1, d1 |-> -1, l |-> 0]
           [] OTHER -> [d0 |-> d0, d1 |-> d1, l |-> 0]

Echo_encode_kernel(cls, source, dt, secret, d0, d1, alpha, decay_rate) ==
    Return(IF Echo_encode_kernel_skips(cls, secret, d0, d1)
           THEN source
           ELSE echo_kernel_sum(source, secret, d0, d1, alpha, decay_rate),
           dt, Echo_encode_kernel_params(cls, secret, d0, d1))

\* the number of cepstrum coefficients decode has for a segment of n samples
cepstrum_len(cls, n) ==
    IF cls \in {"echo_single", "echo_bf"} THEN 2 * (n \div 2) ELSE n

\* the largest index decode reads
cepstrum_max_index(cls, d0, d1) ==
    IF cls \in {"echo_bipolar", "echo_bipolar_bf"}
    THEN Max(d0, d1) + 5 ELSE Max(d0, d1)

\* what EchoX.decode(d0, d1, l) raises on a signal of the given size
Echo_decode_raised(cls, size, d0, d1, l) ==
    IF cls = "echo_bf" /\ l < 1
    THEN NoError
    ELSE IF split_to_n_segments_raised(l) # NoError
    THEN split_to_n_segments_raised(l)
    ELSE IF cepstrum_len(cls, size \div l) = 0
    THEN ValueError         \* FFT of no data points
    ELSE IF cepstrum_max_index(cls, d0, d1) >= cepstrum_len(cls, size \div l)
            \/ Min(d0, d1) < -cepstrum_len(cls, size \div l)
    THEN IndexError
    ELSE NoError

\* EchoX.decode(d0, d1, l); decision[i] is the outcome of the comparison of
\* the cepstrum peaks of segment i
Echo_decode(cls, source, d0, d1, l, decision) ==
    IF Echo_decode_raised(cls, Len(source), d0, d1, l) # NoError
    THEN Raise(Echo_decode_raised(cls, Len(source), d0, d1, l))
    ELSE IF cls = "echo_bf" /\ l < 1
    THEN Return(<<>>, "uint8", NoResult)
    ELSE Return([i \in 1..Len(split_to_n_segments(source, l).out) |-> decision[i]],
                "uint8", NoResult)

\* the delay pairs _encode_bruteforce tries, in the order of its loops
bruteforce_candidates(d0, d1) ==
    {c \in (d0..(d0 + 9)) \X (d1..(d1 + 29)) : c[1] < c[2]}
bruteforce_before(c, e) == c[1] < e[1] \/ (c[1] = e[1] /\ c[2] < e[2])

\* the candidates of a bit error rate of 0, and the first of them in the
\* order of the loops (<<>> when there is none)
bruteforce_hit(d0, d1, ber) ==
    LET zero == {c \in bruteforce_candidates(d0, d1) : ber[c] = 0}
    IN  IF zero = {} THEN <<>>
        ELSE <<CHOOSE c \in zero : \A e \in zero : ~bruteforce_before(e, c)>>

\* min(params_hist, key=params_hist.get): the first candidate, in the order
\* of insertion, of the least bit error rate; every comparison with the nan
\* that an empty secret gives is false, which leaves the first candidate
bruteforce_best(d0, d1, ber, secret) ==
    LET cands == bruteforce_candidates(d0, d1)
    IN  CHOOSE c \in cands : \A e \in cands \ {c} :
            IF Len(secret) = 0 THEN bruteforce_before(c, e)
            ELSE \/ ber[c] < ber[e]
                 \/ ber[c] = ber[e] /\ bruteforce_before(c, e)

\* EchoBase._encode_bruteforce; ber[c] is the bit error rate that the stego
\* of candidate c decodes with
Echo_encode_bruteforce(cls, source, dt, secret, d0, d1, alpha, decay_rate, ber) ==
    LET first == Echo_encode_kernel(cls, source, dt, secret, d0, d1, alpha,
                                    decay_rate)
        raises(c) ==
            LET params == Echo_encode_kernel_params(cls, secret, c[1], c[2])
                size == IF Echo_encode_kernel_skips(cls, secret, c[1], c[2])
                        THEN Len(source)
                        ELSE echo_kernel_len(Len(source), secret)
            IN  Echo_decode_raised(cls, size, params.d0, params.d1, params.l)
        raising == {c \in bruteforce_candidates(d0, d1) : raises(c) # NoError}
        first_raising ==
            CHOOSE c \in raising : \A e \in raising : ~bruteforce_before(e, c)
        hit == bruteforce_hit(d0, d1, ber)
        best == bruteforce_best(d0, d1, ber, secret)
        kernel(c) == Echo_encode_kernel(cls, source, dt, secret, c[1], c[2],
                                        alpha, decay_rate)
        \* self._encode(best_params[0], best_params[1])
        best_kernel == Echo_encode_kernel(cls, source, dt, secret, best[1], best[2],
                                          default_alpha, default_decay_rate)
    IN  IF Len(first.output) = 0
        THEN Raise(ValueError)      \* max() of an empty array
        ELSE IF is_all_zero(first.output)
        THEN Raise(ValueError)      \* min() of the empty params_hist
        ELSE IF hit # <<>>
                /\ \A c \in raising : bruteforce_before(hit[1], c)
                /\ Len(secret) > 0
        THEN Return(kernel(hit[1]).output, dt,
                    [d0 |-> hit[1][1], d1 |-> hit[1][2],
                     l |-> kernel(hit[1]).additional_output.l])
        ELSE IF raising # {}
        THEN Raise(raises(first_raising))
        ELSE Return(best_kernel.output, dt, best_kernel.additional_output)

\* EchoBase._encode_basinhopping; x is the pair of delays the search ends at
Echo_encode_basinhopping(cls, source, dt, secret, d0, d1, alpha, decay_rate, x) ==
    LET first == Echo_encode_kernel(cls, source, dt, secret, d0, d1, alpha,
                                    decay_rate)
        first_raised ==
            Echo_decode_raised(cls, Len(first.output), first.additional_output.d0,
                               first.additional_output.d1,
                               first.additional_output.l)
    IN  IF first_raised # NoError
        THEN Raise(first_raised)
        ELSE Return(Echo_encode_kernel(cls, source, dt, secret, x[1], x[2], alpha,
                                       decay_rate).output,
                    dt, [d0 |-> x[1], d1 |-> x[2], l |-> Len(secret)])

default_d0 == 150
default_d1_offset == 50
samples_per_bit == 1024

\* EchoBase.encode_wrapper; d0 and d1 are optional
Echo_encode(cls, source, dt, secret, d0_in, d1_in, delay_search, alpha, decay_rate, ber, x) ==
    LET d0 == IF d0_in = NoInt THEN default_d0 ELSE d0_in[1]
        d1 == IF d1_in = NoInt THEN d0 + default_d1_offset ELSE d1_in[1]
    IN  IF d0 >= d1
        THEN Raise(ValueError)
        ELSE IF d0 <= 0 \/ d1 <= 0
        THEN Raise(ValueError)
        ELSE IF Len(secret) * samples_per_bit > Len(source)
        THEN Raise(SecretSizeTooLarge)
        ELSE IF delay_search = "bruteforce"
        THEN Echo_encode_bruteforce(cls, source, dt, secret, d0, d1, alpha,
                                    decay_rate, ber)
        ELSE IF delay_search = "basinhopping"
        THEN Echo_encode_basinhopping(cls, source, dt, secret, d0, d1, alpha,
                                      decay_rate, x)
        ELSE Echo_encode_kernel(cls, source, dt, secret, d0, d1, alpha, decay_rate)

(***************************************************************************)
(* The echo methods over covers of equal samples.                          *)
(***************************************************************************)
MaxEchoBits == 2            \* covers hold up to MaxEchoBits bits
EchoCoverLens ==
    {0, samples_per_bit - 1}
        \cup {k * samples_per_bit : k \in 1..MaxEchoBits}
EchoCoverLevels == {0, 5}
EchoSecrets == {s \in Secrets : Len(s) <= MaxEchoBits}
EchoD0s == {NoInt, Some(-1), Some(0), Some(250)}
EchoD1s == {NoInt, Some(0), Some(200), Some(300), Some(samples_per_bit - 4)}
DelaySearches == {"", "bruteforce", "basinhopping"}
\* alpha and decay_rate: the defaults, and a weaker echo
EchoAmplitudes == {<<default_alpha, default_decay_rate>>, <<6, 12>>}

effective_d0 == IF opts.d0 = NoInt THEN default_d0 ELSE opts.d0[1]
effective_d1 ==
    IF opts.d1 = NoInt THEN effective_d0 + default_d1_offset ELSE opts.d1[1]

\* the bit error rates a bruteforce search measures, as the offsets from
\* (d0, d1) of the candidates that decode without an error (zero) and with
\* half of the bits wrong (half); every other candidate has all bits wrong
EchoBerTables ==
    IF opts.delay_search # "bruteforce"
    THEN {[zero |-> {}, half |-> {}]}
    ELSE {[zero |-> {}, half |-> {}],
          [zero |-> {<<0, 0>>}, half |-> {}],
          [zero |-> {<<1, 0>>, <<0, 2>>}, half |-> {}]}
         \cup (IF Len(_secret_data) % 2 = 0
               THEN {[zero |-> {<<9, 0>>}, half |-> {<<0, 0>>}],
                     [zero |-> {}, half |-> {<<9, 29>>}],
                     [zero |-> {}, half |-> {<<1, 0>>, <<0, 2>>}]}
               ELSE {})

\* the bit error rate, in percent, of every candidate under a table
ber_of(table, d0, d1) ==
    [c \in bruteforce_candidates(d0, d1) |->
        IF <<c[1] - d0, c[2] - d1>> \in table.zero THEN 0
        ELSE IF <<c[1] - d0, c[2] - d1>> \in table.half THEN 50
        ELSE 100]

EchoSearchEnds ==
    IF opts.delay_search = "basinhopping"
    THEN {<<effective_d0, effective_d1>>, <<effective_d0 + 3, effective_d1 - 2>>}
    ELSE {<<effective_d0, effective_d1>>}

EchoEncode ==
    /\ pc = "constructed" /\ method \in EchoMethods /\ raised = NoError
    /\ \E table \in EchoBerTables, x \in EchoSearchEnds :
         /\ StoreEncode(Echo_encode(method, source_data, source_dtype, _secret_data,
                                    opts.d0, opts.d1, opts.delay_search,
                                    opts.alpha, opts.decay_rate,
                                    ber_of(table, effective_d0, effective_d1), x))
         /\ trace' = IF opts.delay_search = "bruteforce" THEN <<table>> ELSE <<>>
    /\ pc' = "encoded"
    /\ UNCHANGED <<facade, exists, written, util_vars, method, source_dtype,
                   source_data, secret_dtype, secret_data, _secret_data, opts,
                   decoded>>

\* EchoX(encoded[0]).decode(**encoded[1])
EchoDecodeStego ==
    /\ pc = "encoded" /\ method \in EchoMethods /\ raised = NoError
    /\ \E decision \in [1..Max(additional_output.l, 0) -> {0, 1}] :
         LET r == Echo_decode(method, encoded, additional_output.d0,
                              additional_output.d1, additional_output.l, decision)
         IN  decoded' = r.output /\ raised' = r.raised
    /\ pc' = "decoded"
    /\ UNCHANGED <<facade_vars, util_vars, method, source_dtype, source_data, secret_dtype, secret_data,
                   _secret_data, opts, encoded, encoded_dtype, additional_output>>

\* EchoX(source).decode(d0, d1, l) of any signal
EchoDecodeAny ==
    /\ pc = "constructed" /\ method \in EchoMethods /\ raised = NoError
    /\ Len(_secret_data) = 0
    /\ \E l \in 0..MaxDecodeLen :
        /\ \E decision \in {[i \in 1..l |-> 0], [i \in 1..l |-> 1],
                            [i \in 1..l |-> i % 2]} :
             LET r == Echo_decode(method, source_data, effective_d0,
                                  effective_d1, l, decision)
             IN  decoded' = r.output /\ raised' = r.raised
        /\ opts' = [opts EXCEPT !.l = Some(l)]
    /\ pc' = "decoded_any"
    /\ UNCHANGED <<facade_vars, util_vars, method, source_dtype, source_data, secret_dtype, secret_data,
                   _secret_data, encoded, encoded_dtype, additional_output>>

InitEcho ==
    /\ NoFacade
    /\ method \in EchoMethods
    /\ pc = "new"
    /\ source_dtype \in {"int16", "float64"}
    /\ \E n \in EchoCoverLens, level \in EchoCoverLevels :
         source_data = [i \in 1..n |-> level]
    /\ secret_dtype = "uint8"
    /\ secret_data \in EchoSecrets
    /\ _secret_data = <<>>
    /\ \E d0 \in EchoD0s, d1 \in EchoD1s, delay_search \in DelaySearches,
          echo \in EchoAmplitudes :
         opts = [d0 |-> d0, d1 |-> d1, delay_search |-> delay_search,
                 alpha |-> echo[1], decay_rate |-> echo[2], l |-> NoInt]
    /\ encoded = NoResult
    /\ encoded_dtype = None
    /\ additional_output = NoResult
    /\ decoded = NoResult
    /\ raised = NoError

NextEcho == Construct \/ EchoEncode \/ EchoDecodeStego \/ EchoDecodeAny

SpecEcho == InitEcho /\ [][NextEcho]_vars

\* C6: an echo encode, in every delay_search mode and with the defaults
\* d0 = 150, d1 = d0 + 50 applied, raises ValueError when d0 >= d1 or
\* d0 <= 0 (also when the secret is too large); otherwise raises
\* SecretSizeTooLarge iff len(secret) * 1024 > len(cover); otherwise
\* returns a stego.
C6_EchoPreconditions ==
    (method \in EchoMethods /\ pc = "encoded") =>
        IF effective_d0 >= effective_d1 \/ effective_d0 <= 0
        THEN raised = ValueError
        ELSE IF Len(_secret_data) * samples_per_bit > Len(source_data)
        THEN raised = SecretSizeTooLarge
        ELSE raised = NoError

\* The statement of C6 does hold when no delay search is asked for.
EchoPreconditionsNoSearch ==
    (method \in EchoMethods /\ pc = "encoded" /\ opts.delay_search = "") =>
        IF effective_d0 >= effective_d1 \/ effective_d0 <= 0
        THEN raised = ValueError
        ELSE IF Len(_secret_data) * samples_per_bit > Len(source_data)
        THEN raised = SecretSizeTooLarge
        ELSE raised = NoError

\* the parameters of a decode call are valid for the method
ValidDecodeParams ==
    CASE method = "lsb" -> ValidDepth
      [] method \in EchoMethods -> 0 < effective_d0 /\ effective_d0 < effective_d1
      [] OTHER -> TRUE

IsBitBuffer(b) == \A i \in 1..Len(b) : b[i] \in {0, 1}

\* C10: decoded buffer shape. For every method, every signal of any length
\* and every l >= 1 with otherwise valid parameters, decode returns without
\* raising a buffer of exactly l elements, each 0 or 1.
C10_DecodedShape ==
    (pc = "decoded_any" /\ opts.l # NoInt /\ ValidDecodeParams) =>
        (opts.l[1] >= 1 =>
            /\ raised = NoError
            /\ Len(decoded) = opts.l[1]
            /\ IsBitBuffer(decoded))

\* C9: decode called with l = 0 and otherwise valid parameters does not
\* raise and returns an empty buffer, for every method and every signal.
C9_DecodeZeroLength ==
    (pc = "decoded_any" /\ opts.l = Some(0) /\ ValidDecodeParams) =>
        /\ raised = NoError
        /\ decoded = <<>>

(***************************************************************************)
(* Construction of a method object over secrets of several element types.  *)
(***************************************************************************)
SecretDtypes == {"uint8", "int16", "float64"}

\* the secrets of the tests: an untyped (float64) empty array, an int16
\* empty array, the bits of "42" as int16, and uint8 bits
SecretsOfDtype(dt) ==
    CASE dt = "uint8" -> Secrets
      [] dt = "int16" -> {<<>>, secret_uint8_42}
      [] OTHER -> {<<>>}

InitConstruct ==
    /\ NoFacade
    /\ method \in MethodTags
    /\ pc = "new"
    /\ source_dtype \in Dtypes
    /\ \E kind \in CoverKinds, n \in 0..MaxSmallCover :
         source_data = Cover(kind, n, source_dtype)
    /\ secret_dtype \in SecretDtypes
    /\ secret_data \in SecretsOfDtype(secret_dtype)
    /\ _secret_data = <<>>
    /\ opts = NoOpts
    /\ encoded = NoResult
    /\ encoded_dtype = None
    /\ additional_output = NoResult
    /\ decoded = NoResult
    /\ raised = NoError

NextConstruct == Construct

SpecConstruct == InitConstruct /\ [][NextConstruct]_vars

\* C8: giving a method object a secret whose element type is not uint8
\* raises TypeError, for every method, before any encode.
C8_SecretTypeCheck ==
    (pc = "constructed" /\ secret_dtype # "uint8") => raised = TypeError

\* the options of an encode call are valid for the method: the depth of LSB
\* and the delays of the echo methods are checked the same way by decode
ValidEncodeParams == ValidDecodeParams

\* C11: encode with an empty secret succeeds and returns a stego with the
\* length and the sample values of the cover, for every method, every cover
\* (the empty one too) and every valid option set, delay searches included.
C11_EmptySecretIdentity ==
    (pc = "encoded" /\ Len(_secret_data) = 0 /\ ValidEncodeParams) =>
        /\ raised = NoError
        /\ encoded = source_data

\* The statement of C11 does hold when no delay search is asked for.
EmptySecretIdentityNoSearch ==
    (pc = "encoded" /\ Len(_secret_data) = 0 /\ ValidEncodeParams
        /\ opts.delay_search = "") =>
        /\ raised = NoError
        /\ encoded = source_data

\* C12: the side-params of every successful encode hold l equal to the
\* length of the secret in bits, 0 for the empty secret.
C12_SideParamsLength ==
    (pc = "encoded" /\ raised = NoError) =>
        additional_output.l = Len(_secret_data)

\* C13: every successful encode of LSB (every valid depth, both only_needed
\* settings), of the echo methods (every delay_search mode) and of DSSS
\* returns a stego with exactly as many samples as the cover.
C13_LengthPreserved ==
    (pc = "encoded" /\ raised = NoError
        /\ method \in {"lsb", "dsss"} \cup EchoMethods) =>
        Len(encoded) = Len(source_data)

\* C14: the stego of every successful encode has the sample dtype of the
\* cover, for every method and every cover dtype.
C14_DtypePreserved ==
    (pc = "encoded" /\ raised = NoError) => encoded_dtype = source_dtype

\* C15: an encode call returns the same stego samples and the same
\* side-params whatever the process-global random state is: the result of
\* the LSB encode step taken equals what the same call returns under every
\* other state of numpy.random.
C15_EncodeDeterministic ==
    [][(method = "lsb" /\ pc = "constructed" /\ pc' = "encoded") =>
        \A seed \in RandSeeds :
            LET r == LSB_encode(source_data, source_dtype, _secret_data,
                                opts.depth, opts.only_needed, seed)
            IN  /\ encoded' = r.output
                /\ additional_output' = r.additional_output
                /\ raised' = r.raised]_vars

\* The statement of C15 does hold for the calls that leave no sample to
\* fill: only_needed = True, or a secret that takes the whole cover.
EncodeDeterministicNoFill ==
    [][(method = "lsb" /\ pc = "constructed" /\ pc' = "encoded"
            /\ (opts.only_needed \/ raised' # NoError
                \/ CeilDiv(Len(_secret_data), Max(opts.depth, 1)) = Len(source_data)
                \/ Len(_secret_data) = 0)) =>
        \A seed \in RandSeeds :
            LET r == LSB_encode(source_data, source_dtype, _secret_data,
                                opts.depth, opts.only_needed, seed)
            IN  /\ encoded' = r.output
                /\ additional_output' = r.additional_output
                /\ raised' = r.raised]_vars

(***************************************************************************)
(* method_facade.py: MethodFacade, and cli/__init__.py: main().  A path is *)
(* the pair os.path.splitext() splits it into; the file system is the set  *)
(* of paths that exist.                                                    *)
(***************************************************************************)
OutputFileExists == "OutputFileExists"
FileNotFoundError == "FileNotFoundError"
WavReadError == "WavReadError"

Path(name, ext) == [name |-> name, ext |-> ext]
Dash == Path("-", "")
NoPath == <<>>

splitext(path) == <<path.name, path.ext>>

Mode_encode == "encode"
Mode_decode == "decode"

\* MethodFacade.check_filename: the destination, or OutputFileExists
MethodFacade_check_filename(self, files) ==
    IF self.output_file = Some(Dash)
    THEN [raised |-> NoError, fname |-> Dash]
    ELSE LET name == splitext(self.source)[1]
             ext == splitext(self.source)[2]
             by_mode == IF self.mode = Mode_encode
                        THEN Path(name \o "_" \o self.method, ext)
                        ELSE Path(name \o "_" \o self.method, ".out")
             fname == IF self.output_file # NoPath THEN self.output_file[1] ELSE by_mode
         IN  IF fname \in files /\ ~self.overwrite
             THEN [raised |-> OutputFileExists, fname |-> fname]
             ELSE [raised |-> NoError, fname |-> fname]

\* cli/__init__.py check_filename: the name `mode` it compares with
\* Mode.encode is the module cli.mode, never a Mode, so the decode name is kept
check_filename(source_name, output_file, method_name) ==
    IF output_file = Some(Dash)
    THEN Dash
    ELSE LET name == splitext(source_name)[1]
             fname == Path(name \o "_" \o method_name, ".out")
         IN  IF output_file # NoPath THEN output_file[1] ELSE fname

\* scipy.io.wavfile.read(source) as prepare_data and main() wrap it
wavfile_read(source, files, valid) ==
    IF source \notin files THEN FileNotFoundError
    ELSE IF ~valid THEN WavReadError
    ELSE NoError

\* MethodFacade.write_output: the paths written (none when printing to STDOUT)
write_output(self, fname) ==
    IF self.mode = Mode_encode THEN {fname}
    ELSE IF self.output_file = Some(Dash) THEN {}
    ELSE {fname}

\* what the method's encode()/decode() does inside the facade
MethodOutcomes == {NoError, SecretSizeTooLarge, ValueError}

Finish(exc, steps, paths) ==
    /\ pc' = "exited"
    /\ raised' = exc
    /\ trace' = steps
    /\ written' = paths
    /\ exists' = exists \cup paths
    /\ UNCHANGED <<util_vars, facade, method, source_dtype, source_data, secret_dtype,
                   secret_data, _secret_data, opts, encoded, encoded_dtype,
                   additional_output, decoded>>

\* MethodFacade.encode and MethodFacade.decode
MethodFacade_run ==
    /\ pc = "new"
    /\ facade.entry = "MethodFacade"
    /\ \E valid \in BOOLEAN, outcome \in MethodOutcomes :
         LET chk == MethodFacade_check_filename(facade, exists)
             rd == wavfile_read(facade.source, exists, valid)
         IN  IF chk.raised # NoError
             THEN Finish(chk.raised, <<"check_filename">>, {})
             ELSE IF rd # NoError
             THEN Finish(rd, <<"check_filename", "read_source">>, {})
             ELSE IF outcome # NoError
             THEN Finish(outcome, <<"check_filename", "read_source", "method">>, {})
             ELSE Finish(NoError,
                         <<"check_filename", "read_source", "method", "write_output">>,
                         write_output(facade, chk.fname))

\* cli/__init__.py main(), from reading the source on
main ==
    /\ pc = "new"
    /\ facade.entry = "main"
    /\ \E valid \in BOOLEAN, outcome \in MethodOutcomes :
         LET rd == wavfile_read(facade.source, exists, valid)
             output_file == check_filename(facade.source, facade.output_file,
                                           facade.method)
         IN  IF rd # NoError
             THEN Finish(rd, <<"read_source">>, {})
             ELSE IF output_file \in exists /\ ~facade.overwrite
             THEN Finish(OutputFileExists, <<"read_source", "check_filename">>, {})
             ELSE IF outcome # NoError
             THEN Finish(outcome, <<"read_source", "check_filename", "method">>, {})
             ELSE Finish(NoError,
                         <<"read_source", "check_filename", "method", "write_output">>,
                         IF facade.mode = Mode_decode /\ output_file = Dash
                         THEN {} ELSE {output_file})

FacadeMethods == {"lsb", "phase"}
FacadeSource == Path("cover", ".wav")
FacadeOutputs == {NoPath, Some(Dash), Some(Path("out", ".wav")), Some(FacadeSource)}
FacadePaths ==
    {FacadeSource, Dash, Path("out", ".wav")}
        \cup {Path("cover_" \o m, e) : m \in FacadeMethods, e \in {".wav", ".out"}}

InitFacade ==
    /\ method \in FacadeMethods
    /\ pc = "new"
    /\ \E entry \in {"MethodFacade", "main"}, mode \in {Mode_encode, Mode_decode},
          output_file \in FacadeOutputs, overwrite \in BOOLEAN :
         facade = [entry |-> entry, method |-> method, mode |-> mode,
                   source |-> FacadeSource, output_file |-> output_file,
                   overwrite |-> overwrite]
    /\ exists \in SUBSET FacadePaths
    /\ written = {}
    /\ trace = <<>>
    /\ NoUtil
    /\ source_dtype = None
    /\ source_data = <<>>
    /\ secret_dtype = None
    /\ secret_data = <<>>
    /\ _secret_data = <<>>
    /\ opts = NoOpts
    /\ encoded = NoResult
    /\ encoded_dtype = None
    /\ additional_output = NoResult
    /\ decoded = NoResult
    /\ raised = NoError

NextFacade == MethodFacade_run \/ main

SpecFacade == InitFacade /\ [][NextFacade]_vars

\* the destination the run resolves
Destination ==
    IF facade.entry = "MethodFacade"
    THEN MethodFacade_check_filename(facade, {}).fname
    ELSE check_filename(facade.source, facade.output_file, facade.method)

Steps == {trace[i] : i \in DOMAIN trace}

\* the destination existed before the run, overwrite is false, output is not '-'
WouldOverwrite ==
    /\ pc = "exited"
    /\ facade.output_file # Some(Dash)
    /\ ~facade.overwrite
    /\ Destination \in exists \ written

\* C16: when the resolved destination exists, overwrite is false and the
\* output is not '-', encode and decode fail with OutputFileExists before the
\* source is read or the method is run and write nothing; a file is written
\* only after the method returned successfully.
C16_NoSilentOverwrite ==
    /\ WouldOverwrite =>
         /\ raised = OutputFileExists
         /\ "read_source" \notin Steps
         /\ "method" \notin Steps
         /\ written = {}
    /\ (pc = "exited" /\ written # {}) =>
         /\ raised = NoError
         /\ "method" \in Steps

\* C16, without the order of the check and the read: an existing destination
\* is never written without overwrite, and a file is written only after the
\* method returned successfully.
NoSilentOverwriteUnordered ==
    /\ WouldOverwrite =>
         /\ raised \in {OutputFileExists, FileNotFoundError, WavReadError}
         /\ "method" \notin Steps
         /\ written = {}
    /\ (pc = "exited" /\ written # {}) =>
         /\ raised = NoError
         /\ "method" \in Steps

(***************************************************************************)
(* audio_utils.py: spread_bits, and the audio_utils functions called on    *)
(* their own.                                                              *)
(***************************************************************************)
Ones(n) == [i \in 1..n |-> 1]

\* mixer * secret_data[:, None], then numpy.append(mixer, rest)
spread_bits(secret, signal_length) ==
    LET r == split_to_n_segments(Ones(signal_length), Len(secret))
        mixer == [i \in 1..Len(r.out) |->
                     [k \in 1..Len(r.out[i]) |-> r.out[i][k] * secret[i]]]
    IN  IF r.raised # NoError
        THEN [raised |-> r.raised, out |-> <<>>]
        ELSE [raised |-> NoError, out |-> Concat(mixer) \o r.rest]

MaxUtilLen == 4         \* the arrays handed to the functions hold 0..MaxUtilLen elements
MaxUtilN == 5           \* and the integer argument is in 0..MaxUtilN

UtilArrays == UNION {[1..k -> {0, 1}] : k \in 0..MaxUtilLen}

\* the array as booleans, input.astype(bool)
astype_bool(x) == [i \in 1..Len(x) |-> x[i] # 0]

InitUtil ==
    /\ method = None
    /\ pc = "new"
    /\ args \in [x : UtilArrays, y : UtilArrays, n : 0..MaxUtilN]
    /\ returned = <<>>
    /\ NoEvaluation
    /\ facade = <<>>
    /\ exists = {}
    /\ written = {}
    /\ trace = <<>>
    /\ source_dtype = None
    /\ source_data = <<>>
    /\ secret_dtype = None
    /\ secret_data = <<>>
    /\ _secret_data = <<>>
    /\ opts = NoOpts
    /\ encoded = NoResult
    /\ encoded_dtype = None
    /\ additional_output = NoResult
    /\ decoded = NoResult
    /\ raised = NoError

Call(name, r) ==
    /\ pc = "new"
    /\ pc' = name
    /\ returned' = r
    /\ UNCHANGED <<args, evaluation, pool, facade_vars, method, source_dtype, source_data,
                   secret_dtype, secret_data, _secret_data, opts, encoded,
                   encoded_dtype, additional_output, decoded, raised>>

CallSpreadBits == Call("spread_bits", spread_bits(args.x, args.n))
CallSplitToSegmentsOfLenN ==
    Call("split_to_segments_of_len_n", split_to_segments_of_len_n(args.x, args.n))
CallConsecutiveValues ==
    Call("consecutive_values", consecutive_values(astype_bool(args.x)))

CallBerPercent == Call("ber_percent", ber_percent(args.x, args.y))

NextUtil ==
    \/ CallSpreadBits
    \/ CallSplitToSegmentsOfLenN
    \/ CallConsecutiveValues
    \/ CallBerPercent

SpecUtil == InitUtil /\ [][NextUtil]_vars

\* C17: for m >= 1 secret bits and L >= 0, spread_bits(b, L) has length L:
\* m runs of floor(L / m) samples, run i constant b[i], then L mod m zeros.
C17_SpreadBitsShape ==
    (pc = "spread_bits" /\ Len(args.x) >= 1) =>
        LET m == Len(args.x)
            L == args.n
            run == L \div m
        IN  /\ returned.raised = NoError
            /\ Len(returned.out) = L
            /\ \A i \in 1..m : \A k \in 1..run :
                 returned.out[(i - 1) * run + k] = args.x[i]
            /\ \A j \in (m * run + 1)..L : returned.out[j] = 0

\* C17 with the trailing L mod m samples being ones
SpreadBitsTrailingOnes ==
    (pc = "spread_bits" /\ Len(args.x) >= 1) =>
        LET m == Len(args.x)
            L == args.n
            run == L \div m
        IN  /\ returned.raised = NoError
            /\ Len(returned.out) = L
            /\ \A i \in 1..m : \A k \in 1..run :
                 returned.out[(i - 1) * run + k] = args.x[i]
            /\ \A j \in (m * run + 1)..L : returned.out[j] = 1

\* C18: for every x (the empty one and 0 < len(x) < n too) and n >= 1,
\* split_to_segments_of_len_n(x, n) returns without raising floor(len(x) / n)
\* pieces of length n and a remainder of len(x) mod n samples, which
\* concatenate to x.
C18_SplitLenNTotal ==
    (pc = "split_to_segments_of_len_n" /\ args.n >= 1) =>
        /\ returned.raised = NoError
        /\ Len(returned.out) = Len(args.x) \div args.n
        /\ \A k \in 1..Len(returned.out) : Len(returned.out[k]) = args.n
        /\ Len(returned.rest) = Len(args.x) % args.n
        /\ Concat(returned.out) \o returned.rest = args.x

\* C18 for the inputs that are empty or hold at least n samples
SplitLenNLongEnough ==
    (/\ pc = "split_to_segments_of_len_n"
     /\ args.n >= 1
     /\ (Len(args.x) = 0 \/ Len(args.x) >= args.n)) =>
        /\ returned.raised = NoError
        /\ Len(returned.out) = Len(args.x) \div args.n
        /\ \A k \in 1..Len(returned.out) : Len(returned.out[k]) = args.n
        /\ Len(returned.rest) = Len(args.x) % args.n
        /\ Concat(returned.out) \o returned.rest = args.x

\* the i-th run of x: the elements from starts[i] (0-based) on, lens[i] of them
RunOf(x, starts, lens, i) == SubSeq(x, starts[i] + 1, starts[i] + lens[i])

\* C19: consecutive_values(x) on a boolean array returns starts and lens with
\* starts[0] = 0, starts[i+1] = starts[i] + lens[i], lens[i] >= 1, the lens
\* summing to len(x), all elements of a run equal and adjacent runs
\* different; on the empty array both are empty.
C19_ConsecutiveValuesPartition ==
    (pc = "consecutive_values") =>
        LET x == astype_bool(args.x)
            starts == returned.indices
            lens == returned.lengths
            runs == Len(starts)
        IN  /\ Len(lens) = runs
            /\ (Len(x) = 0) <=> (runs = 0)
            /\ runs > 0 => starts[1] = 0
            /\ \A i \in 1..(runs - 1) : starts[i + 1] = starts[i] + lens[i]
            /\ \A i \in 1..runs : lens[i] >= 1
            /\ runs > 0 => starts[runs] + lens[runs] = Len(x)
            /\ \A i \in 1..runs : \A k \in 1..lens[i] :
                 x[starts[i] + k] = x[starts[i] + 1]
            /\ \A i \in 1..(runs - 1) : x[starts[i] + 1] # x[starts[i + 1] + 1]

\* C19 witness: an array of at least two runs, one of them longer than 1, split
ConsecutiveValuesSplitRuns ==
    /\ pc = "consecutive_values"
    /\ Len(returned.indices) >= 2
    /\ \E i \in 1..Len(returned.lengths) : returned.lengths[i] >= 2

\* the number of samples an LSB encode writes a payload chunk to
LSBChunkCount == CeilDiv(Len(_secret_data), Max(opts.depth, 1))

\* C20: after a successful LSB encode with depth d every stego sample agrees
\* with the cover sample of the same index on all bits above the low d bits,
\* and with only_needed every sample that receives no payload chunk is
\* identical to the cover sample.
C20_LSBFrame ==
    (method = "lsb" /\ pc = "encoded" /\ raised = NoError) =>
        /\ \A i \in 1..Len(source_data) :
             /\ i <= Len(encoded)
             /\ HighBits(encoded[i], opts.depth) = HighBits(source_data[i], opts.depth)
        /\ opts.only_needed =>
             \A i \in (LSBChunkCount + 1)..Len(source_data) :
                 /\ i <= Len(encoded)
                 /\ encoded[i] = source_data[i]

\* C20 for the depths of at most 8, whose chunks are packed into one byte
LSBFrameByteDepth ==
    (/\ method = "lsb" /\ pc = "encoded" /\ raised = NoError
     /\ opts.depth <= 8) =>
        /\ \A i \in 1..Len(source_data) :
             /\ i <= Len(encoded)
             /\ HighBits(encoded[i], opts.depth) = HighBits(source_data[i], opts.depth)
        /\ opts.only_needed =>
             \A i \in (LSBChunkCount + 1)..Len(source_data) :
                 /\ i <= Len(encoded)
                 /\ encoded[i] = source_data[i]

\* an echo encode with the bruteforce search whose arguments pass the checks
\* of encode_wrapper
BruteforcePre ==
    /\ pc = "encoded" /\ method \in EchoMethods
    /\ opts.delay_search = "bruteforce"
    /\ 0 < effective_d0 /\ effective_d0 < effective_d1
    /\ Len(_secret_data) * samples_per_bit <= Len(source_data)

\* the bit error rates the search of the last encode measured
MeasuredBer == ber_of(trace[1], effective_d0, effective_d1)

\* (d0', d1') is a scanned candidate that is the first of a bit error rate of
\* 0 if there is one, and of the least bit error rate otherwise
BruteforceChoice(d0, d1) ==
    LET c == <<d0, d1>>
        scanned == DOMAIN MeasuredBer
        zero == {e \in scanned : MeasuredBer[e] = 0}
    IN  /\ effective_d0 <= d0 /\ d0 < effective_d0 + 10
        /\ effective_d1 <= d1 /\ d1 < effective_d1 + 30
        /\ d0 < d1
        /\ c \in scanned
        /\ IF zero # {}
           THEN /\ c \in zero
                /\ \A e \in zero : c[1] < e[1] \/ (c[1] = e[1] /\ c[2] <= e[2])
           ELSE \A e \in scanned : MeasuredBer[c] <= MeasuredBer[e]

\* C21: for every cover and payload that pass the echo preconditions the
\* bruteforce delay search terminates and returns a pair (d0', d1') in
\* [d0, d0 + 10) x [d1, d1 + 30) with d0' < d1', the first scanned candidate
\* of BER 0 if there is one, otherwise a scanned candidate of minimum BER.
C21_BruteforceSearch ==
    BruteforcePre =>
        /\ raised = NoError
        /\ BruteforceChoice(additional_output.d0, additional_output.d1)

\* C21 for the searches that return: a cover that is not all zero, a secret
\* that is not empty, no candidate whose decode raises
BruteforceSearchWhenReturned ==
    (BruteforcePre /\ raised = NoError /\ Len(_secret_data) > 0) =>
        BruteforceChoice(additional_output.d0, additional_output.d1)

\* the stego of the cover with the returned delays and the caller's alpha
\* and decay_rate
StegoOfReturnedPair ==
    Echo_encode_kernel(method, source_data, source_dtype, _secret_data,
                       additional_output.d0, additional_output.d1,
                       opts.alpha, opts.decay_rate).output

\* C22: the stego the bruteforce delay search returns is the encoding of the
\* cover with the returned (d0', d1') and the caller's alpha and decay_rate,
\* both when a pair of BER 0 is found and when the pair of minimum BER is
\* taken.
C22_BruteforceStegoConsistent ==
    (BruteforcePre /\ raised = NoError) => encoded = StegoOfReturnedPair

\* C22 for the searches that find a pair of BER 0, and for the callers that
\* leave alpha and decay_rate at their defaults
BruteforceStegoConsistentOnHit ==
    (/\ BruteforcePre /\ raised = NoError
     /\ \/ \E c \in DOMAIN MeasuredBer : MeasuredBer[c] = 0
        \/ (opts.alpha = default_alpha /\ opts.decay_rate = default_decay_rate)) =>
        encoded = StegoOfReturnedPair

\* the runs of the cover, as the encoder's threshold splits it, and the runs
\* of equal samples of the stego
CoverRuns == consecutive_values(silence_mask(source_data))
StegoRuns == consecutive_values(encoded)

SilenceEncoded ==
    /\ method = "silence_interval" /\ pc = "encoded" /\ raised = NoError
    /\ Len(_secret_data) > 0

\* is run k of the cover made of samples with |s| <= 0.15 * max(|cover|)
IsSilentRun(k) == silence_mask(source_data)[CoverRuns.indices[k] + 1]

\* C23: silence-interval encode removes samples from silent runs only: no
\* run that holds samples above 0.15 * max(|cover|) is shortened.
C23_OnlySilentRunsShortened ==
    SilenceEncoded =>
        /\ Len(StegoRuns.lengths) = Len(CoverRuns.lengths)
        /\ \A k \in 1..Len(CoverRuns.lengths) :
             StegoRuns.lengths[k] # CoverRuns.lengths[k] => IsSilentRun(k)

\* C23 for the covers whose loud runs are all shorter than min_silence_len
OnlySilentRunsShortenedShortLoud ==
    (/\ SilenceEncoded
     /\ \A k \in 1..Len(CoverRuns.lengths) :
          IsSilentRun(k) \/ CoverRuns.lengths[k] < opts.min_silence_len) =>
        /\ Len(StegoRuns.lengths) = Len(CoverRuns.lengths)
        /\ \A k \in 1..Len(CoverRuns.lengths) :
             StegoRuns.lengths[k] # CoverRuns.lengths[k] => IsSilentRun(k)

\* the j-th group of 4 payload bits, padded with zeros, least significant
\* bit first
Nibble(j) ==
    LET bit(i) == IF 4 * (j - 1) + i <= Len(_secret_data)
                  THEN _secret_data[4 * (j - 1) + i] ELSE 0
    IN  bit(1) + 2 * bit(2) + 4 * bit(3) + 8 * bit(4)

\* segment k of the cover and of the stego
CoverSegment(k) ==
    SubSeq(source_data, CoverRuns.indices[k] + 1,
           CoverRuns.indices[k] + CoverRuns.lengths[k])
StegoSegment(k) ==
    SubSeq(encoded, StegoRuns.indices[k] + 1,
           StegoRuns.indices[k] + StegoRuns.lengths[k])

eval_secret_bits == <<4 * 8, 16 * 8, 64 * 8>>

\* options.get(method, []) (not extended); alpha is in ten-thousandths
eval_options(m) ==
    CASE m = "phase" -> <<NoOpts>>
      [] m = "silence_interval" ->
            <<[min_silence_len |-> 400], [min_silence_len |-> 600]>>
      [] m = "dsss" -> <<[alpha |-> 500], [alpha |-> 50], [alpha |-> 25]>>
      [] OTHER -> <<>>

\* the keys of modifications, in the order of insertion (not extended)
eval_modifications ==
    <<"", "half sampling", "half quantization", "noise: SNR 20 dB",
      "noise: SNR 10 dB", "mp3 transcoding: 96k", "low-pass half max frequency",
      "high-pass half max frequency">>

ffmpeg == Path("ffmpeg", "")

\* modification_func(stego): the identity returns its input, mp3_transcoding
\* raises FileNotFoundError without an ffmpeg executable
eval_modify(name, stego, files) ==
    IF name = ""
    THEN [raised |-> NoError, out |-> stego]
    ELSE IF name = "mp3 transcoding: 96k" /\ ffmpeg \notin files
    THEN [raised |-> FileNotFoundError, out |-> stego]
    ELSE [raised |-> NoError,
          out |-> [stego EXCEPT !.modified = Append(@, name)]]

\* a row of nan metrics that keeps a measured decode time
eval_nan_row_timed(m, opt, secret, modification_name) ==
    [method |-> m, params |-> opt, secret_bits |-> eval_secret_bits[secret],
     modification |-> modification_name, ber_percent |-> "nan",
     time_to_encode |-> "inf", time_to_decode |-> "measured",
     decoded |-> <<>>]

\* the row of a failed encode or modification
eval_nan_row(m, opt, secret, modification_name) ==
    [method |-> m, params |-> opt, secret_bits |-> eval_secret_bits[secret],
     modification |-> modification_name, ber_percent |-> "nan",
     time_to_encode |-> "inf", time_to_decode |-> "inf",
     decoded |-> <<>>]

\* the row of a decoded signal
eval_row(m, opt, secret, modification_name, stego) ==
    [method |-> m, params |-> opt, secret_bits |-> eval_secret_bits[secret],
     modification |-> modification_name, ber_percent |-> "measured",
     time_to_encode |-> "measured", time_to_decode |-> "measured",
     decoded |-> <<stego>>]

\* the loops over the messages and the options: the evaluation goes on with
\* the next options, then with the next message, then returns
eval_continue(ev, rows) ==
    IF ev.opt < Len(eval_options(method))
    THEN /\ evaluation' = [ev EXCEPT !.opt = @ + 1, !.modification = 0,
                                     !.all_stats_df = rows]
         /\ pc' = "evaluating"
         /\ returned' = <<>>
    ELSE IF ev.secret_data < Len(eval_secret_bits)
    THEN /\ evaluation' = [ev EXCEPT !.secret_data = @ + 1, !.opt = 1,
                                     !.modification = 0, !.all_stats_df = rows]
         /\ pc' = "evaluating"
         /\ returned' = <<>>
    ELSE /\ evaluation' = [ev EXCEPT !.all_stats_df = rows]
         /\ pc' = "returned"
         /\ returned' = rows

EvalUnchanged ==
    UNCHANGED <<args, pool, facade_vars, method, source_dtype, source_data,
                secret_dtype, secret_data, _secret_data, opts, encoded,
                encoded_dtype, additional_output, decoded>>

\* facade.encode(**opt), and the except SecretSizeTooLarge branch
EvalEncode ==
    /\ pc = "evaluating"
    /\ evaluation.modification = 0
    /\ LET ev == evaluation
           opt == eval_options(method)[ev.opt]
       IN  IF <<ev.secret_data, ev.opt>> \in ev.too_large
           THEN /\ eval_continue(ev, Append(ev.all_stats_df,
                                  eval_nan_row(method, opt, ev.secret_data, "")))
                /\ raised' = NoError
           ELSE /\ evaluation' =
                    [ev EXCEPT !.modification = 1,
                               !.stego = [secret_data |-> ev.secret_data,
                                          opt |-> ev.opt, modified |-> <<>>]]
                /\ UNCHANGED <<pc, returned, raised>>
    /\ EvalUnchanged

\* one pass of the loop over modifications.items(): modify, decode, get_stats
EvalModification ==
    /\ pc = "evaluating"
    /\ evaluation.modification >= 1
    /\ LET ev == evaluation
           opt == eval_options(method)[ev.opt]
           name == eval_modifications[ev.modification]
           mod == eval_modify(name, ev.stego, exists)
           last == ev.modification = Len(eval_modifications)
           go_on(rows, stego) ==
               IF last THEN eval_continue([ev EXCEPT !.stego = stego], rows)
               ELSE /\ evaluation' = [ev EXCEPT !.modification = @ + 1,
                                                !.stego = stego,
                                                !.all_stats_df = rows]
                    /\ UNCHANGED <<pc, returned>>
       IN  IF mod.raised # NoError
           THEN /\ go_on(Append(ev.all_stats_df,
                                eval_nan_row(method, opt, ev.secret_data, name)),
                         ev.stego)
                /\ raised' = NoError
           ELSE IF <<ev.secret_data, ev.opt, ev.modification>> \in ev.decode_raises
           THEN /\ pc' = "raised"
                /\ raised' = ValueError
                /\ evaluation' = [ev EXCEPT !.stego = mod.out]
                /\ UNCHANGED returned
           ELSE /\ go_on(Append(ev.all_stats_df,
                                eval_row(method, opt, ev.secret_data, name, mod.out)),
                         mod.out)
                /\ raised' = NoError
    /\ EvalUnchanged

EvalMethods == {"phase", "silence_interval", "dsss"}

\* the (message, options) pairs of a method
EvalPairs(m) == (1..Len(eval_secret_bits)) \X (1..Len(eval_options(m)))

\* the pairs whose encode raises SecretSizeTooLarge: none, all, those of the
\* longest message, the first one, those of the last options
EvalTooLarge(m) ==
    {{}, EvalPairs(m),
     {c \in EvalPairs(m) : c[1] = Len(eval_secret_bits)},
     {<<1, 1>>},
     {c \in EvalPairs(m) : c[2] = Len(eval_options(m))}}

\* the decode calls that raise: none, or that of one modified signal
EvalDecodeRaises == {{}, {<<2, 1, 4>>}}

InitEval ==
    /\ method \in EvalMethods
    /\ pc = "evaluating"
    /\ \E too_large \in EvalTooLarge(method), decode_raises \in EvalDecodeRaises :
         evaluation = [secret_data |-> 1, opt |-> 1, modification |-> 0,
                       stego |-> <<>>, all_stats_df |-> <<>>,
                       too_large |-> too_large, decode_raises |-> decode_raises]
    /\ exists \in SUBSET {ffmpeg}
    /\ pool = <<>>
    /\ args = <<>>
    /\ returned = <<>>
    /\ facade = <<>>
    /\ written = {}
    /\ trace = <<>>
    /\ source_dtype = None
    /\ source_data = <<>>
    /\ secret_dtype = None
    /\ secret_data = <<>>
    /\ _secret_data = <<>>
    /\ opts = NoOpts
    /\ encoded = NoResult
    /\ encoded_dtype = None
    /\ additional_output = NoResult
    /\ decoded = NoResult
    /\ raised = NoError

NextEval == EvalEncode \/ EvalModification

SpecEval == InitEval /\ [][NextEval]_vars

Rows == evaluation.all_stats_df

\* C25: every modification is applied to the stego signal encode returned,
\* so the signal decoded for a modification has that modification applied
\* and no other.
C25_ModificationsIndependent ==
    pc \in {"evaluating", "returned"} =>
        \A i \in 1..Len(Rows) :
            Rows[i].decoded # <<>> =>
                Rows[i].decoded[1].modified =
                    IF Rows[i].modification = "" THEN <<>>
                    ELSE <<Rows[i].modification>>

\* C25 for the first modification that is not the identity
FirstModificationOnEncoded ==
    pc \in {"evaluating", "returned"} =>
        \A i \in 1..Len(Rows) :
            (Rows[i].decoded # <<>>
                /\ Rows[i].modification \in {"", "half sampling"}) =>
                Rows[i].decoded[1].modified =
                    IF Rows[i].modification = "" THEN <<>>
                    ELSE <<Rows[i].modification>>

\* the rows of a (message, options) pair
RowsOf(c) ==
    SelectSeq(Rows, LAMBDA r : /\ r.secret_bits = eval_secret_bits[c[1]]
                               /\ r.params = eval_options(method)[c[2]])

\* C26: when encode raises SecretSizeTooLarge for a (payload, opts), exactly
\* one row is appended for it, with nan metrics and infinite encode and
\* decode times, no modification or decode is run for it, and every later
\* (payload, opts) is still evaluated.
C26_TooLargeRow ==
    pc = "returned" =>
        \A c \in EvalPairs(method) :
            IF c \in evaluation.too_large
            THEN /\ Len(RowsOf(c)) = 1
                 /\ RowsOf(c)[1].ber_percent = "nan"
                 /\ RowsOf(c)[1].time_to_encode = "inf"
                 /\ RowsOf(c)[1].time_to_decode = "inf"
                 /\ RowsOf(c)[1].modification = ""
                 /\ RowsOf(c)[1].decoded = <<>>
            ELSE Len(RowsOf(c)) = Len(eval_modifications)

\* C26 witness: an evaluation has returned in which an encode raised
\* SecretSizeTooLarge and a later (payload, opts) was evaluated in full
TooLargeThenEvaluated ==
    /\ pc = "returned"
    /\ \E c \in evaluation.too_large, e \in EvalPairs(method) \ evaluation.too_large :
         /\ c[1] < e[1] \/ (c[1] = e[1] /\ c[2] < e[2])
         /\ Len(RowsOf(e)) = Len(eval_modifications)

(***************************************************************************)
(* cli/evaluation/__main__.py: main and evaluation_process.  The dataset   *)
(* root holds files at <dataset>/<category>/<file>; a directory name is    *)
(* the pair of whether it starts with "." and the rest of it.              *)
(***************************************************************************)
AttributeError == "AttributeError"

DirName(dot, rest) == [dot |-> dot, rest |-> rest]
startswith_dot(name) == name.dot

\* file.suffix.lower()
suffix_lower(file) ==
    CASE file.ext = ".WAV" -> ".wav"
      [] OTHER -> file.ext

\* the files main hands to the pool: those of the directories that do not
\* start with "." whose suffix is .wav
accepted_files(tree) ==
    {f \in tree : /\ ~startswith_dot(f.dataset)
                  /\ ~startswith_dot(f.category)
                  /\ suffix_lower(f.file) = ".wav"}

\* output_path / f'{file.name}.csv' of evaluation_process
output_path(output_dir, f) ==
    <<output_dir, f.dataset, f.category, f.file.name \o f.file.ext \o ".csv">>

\* the attributes of the Namespace parse_args returns
namespace_attributes ==
    {"datasets", "output", "log", "extended", "processes", "methods"}

\* main(): Path(args.output) raises TypeError without -o, mp.Pool raises
\* ValueError for fewer than 1 process, and the arguments of the first
\* apply_async read args.no_mp3
evaluation_main ==
    /\ pc = "new"
    /\ LET files == accepted_files(pool.tree)
           exc == IF pool.args.output = NoPath THEN TypeError
                  ELSE IF pool.args.processes < 1 THEN ValueError
                  ELSE IF files # {} /\ "no_mp3" \notin namespace_attributes
                  THEN AttributeError
                  ELSE NoError
       IN  /\ raised' = exc
           /\ pc' = IF exc = NoError THEN "joined" ELSE "raised"
           /\ pool' = [pool EXCEPT
                         !.tasks = IF exc = NoError THEN files ELSE {}]
    /\ UNCHANGED <<args, returned, evaluation, facade_vars, method, source_dtype,
                   source_data, secret_dtype, secret_data, _secret_data, opts,
                   encoded, encoded_dtype, additional_output, decoded>>

EvalFile(dataset, category, name, ext) ==
    [dataset |-> dataset, category |-> category, file |-> Path(name, ext)]

\* the files a dataset root can hold
PoolFiles ==
    {EvalFile(DirName(FALSE, "d1"), DirName(FALSE, "c1"), "a", ".wav"),
     EvalFile(DirName(FALSE, "d1"), DirName(FALSE, "c1"), "a", ".WAV"),
     EvalFile(DirName(FALSE, "d1"), DirName(FALSE, "c1"), "notes", ".txt"),
     EvalFile(DirName(FALSE, "d1"), DirName(FALSE, "c2"), "a", ".wav"),
     EvalFile(DirName(FALSE, "d2"), DirName(FALSE, "c1"), "a", ".wav"),
     EvalFile(DirName(FALSE, "d1"), DirName(TRUE, "git"), "a", ".wav"),
     EvalFile(DirName(TRUE, "cache"), DirName(FALSE, "c1"), "a", ".wav")}

InitPool ==
    /\ method = None
    /\ pc = "new"
    /\ \E tree \in SUBSET PoolFiles, output \in {NoPath, Some(Path("output", ""))},
          processes \in 0..2 :
         pool = [tree |-> tree, tasks |-> {},
                 args |-> [output |-> output, processes |-> processes]]
    /\ evaluation = <<>>
    /\ exists = {}
    /\ args = <<>>
    /\ returned = <<>>
    /\ facade = <<>>
    /\ written = {}
    /\ trace = <<>>
    /\ source_dtype = None
    /\ source_data = <<>>
    /\ secret_dtype = None
    /\ secret_data = <<>>
    /\ _secret_data = <<>>
    /\ opts = NoOpts
    /\ encoded = NoResult
    /\ encoded_dtype = None
    /\ additional_output = NoResult
    /\ decoded = NoResult
    /\ raised = NoError

NextPool == evaluation_main

SpecPool == InitPool /\ [][NextPool]_vars

\* C27: each accepted input file yields exactly one task in the worker pool,
\* and no two tasks write the same path, each writing only
\* output/<dataset>/<category>/<file>.csv.
C27_OneTaskPerFile ==
    (/\ pc \in {"joined", "raised"}
     /\ pool.args.output # NoPath /\ pool.args.processes >= 1) =>
        /\ pool.tasks = accepted_files(pool.tree)
        /\ \A f, g \in pool.tasks :
             f # g => output_path(pool.args.output[1], f)
                        # output_path(pool.args.output[1], g)

\* the paths of two different accepted files are different
AcceptedFilesHaveDistinctPaths ==
    \A f, g \in accepted_files(pool.tree) :
        f # g => output_path("output", f) # output_path("output", g)

(***************************************************************************)
(* The decision of one bit from the cepstrum of one segment:               *)
(* methods/echo_bipolar.py decode (lines 168-181) and                      *)
(* methods/echo_bipolar_bf.py decode (lines 178-189).  cn maps the lags    *)
(* that decode reads to the values found there; echo_bipolar reads them    *)
(* from the autocorrelated power cepstrum and echo_bipolar_bf from the     *)
(* power cepstrum itself.                                                  *)
(***************************************************************************)
EchoBipolar_decision(cn, d0, d1) ==
    IF cn[d0] < cn[d1] \/ cn[d0 + 5] > cn[d1 + 5] THEN 0 ELSE 1

EchoBipolarBF_decision(cn, d0, d1) ==
    IF cn[d0] > cn[d1] \/ cn[d0 + 5] < cn[d1 + 5] THEN 0 ELSE 1

MaxCepstrumValue == 1       \* the values at the lags are in -1..MaxCepstrumValue
CepstrumD0 == default_d0
CepstrumD1s == {default_d0 + 5, default_d0 + default_d1_offset}
CepstrumLags(d0, d1) == {d0, d1, d0 + 5, d1 + 5}

InitCepstrum ==
    /\ method = None
    /\ pc = "new"
    /\ \E d1 \in CepstrumD1s :
         \E cn \in [CepstrumLags(CepstrumD0, d1) -> -1..MaxCepstrumValue] :
            args = [d0 |-> CepstrumD0, d1 |-> d1, cn |-> cn]
    /\ returned = <<>>
    /\ NoEvaluation
    /\ facade = <<>>
    /\ exists = {}
    /\ written = {}
    /\ trace = <<>>
    /\ source_dtype = None
    /\ source_data = <<>>
    /\ secret_dtype = None
    /\ secret_data = <<>>
    /\ _secret_data = <<>>
    /\ opts = NoOpts
    /\ encoded = NoResult
    /\ encoded_dtype = None
    /\ additional_output = NoResult
    /\ decoded = NoResult
    /\ raised = NoError

EchoBipolarDecodeSegment ==
    Call("echo_bipolar", <<EchoBipolar_decision(args.cn, args.d0, args.d1)>>)
EchoBipolarBFDecodeSegment ==
    Call("echo_bipolar_bf", <<EchoBipolarBF_decision(args.cn, args.d0, args.d1)>>)

NextCepstrum == EchoBipolarDecodeSegment \/ EchoBipolarBFDecodeSegment

SpecCepstrum == InitCepstrum /\ [][NextCepstrum]_vars

\* the disjunction c[d0] < c[d1] or c[d0+5] > c[d1+5] over the values read
BipolarDisjunction ==
    \/ args.cn[args.d0] < args.cn[args.d1]
    \/ args.cn[args.d0 + 5] > args.cn[args.d1 + 5]

\* C28: echo_bipolar_bf decodes with the decision rule of echo_bipolar: for
\* all values of c[d0], c[d1], c[d0+5], c[d1+5] the two decoders emit the
\* same bit, and that bit is decided by the disjunction c[d0] < c[d1] or
\* c[d0+5] > c[d1+5].
C28_SameDecisionRule ==
    pc \in {"echo_bipolar", "echo_bipolar_bf"} =>
        /\ returned[1] = EchoBipolar_decision(args.cn, args.d0, args.d1)
        /\ returned[1] = EchoBipolarBF_decision(args.cn, args.d0, args.d1)
        /\ returned[1] = IF BipolarDisjunction THEN 0 ELSE 1

\* C28, the part that holds: echo_bipolar emits 0 exactly when the
\* disjunction holds, and echo_bipolar_bf emits 0 exactly when the
\* disjunction of the opposite comparisons holds.
DecisionRulesAsWritten ==
    /\ pc = "echo_bipolar" => (returned[1] = 0 <=> BipolarDisjunction)
    /\ pc = "echo_bipolar_bf" =>
          (returned[1] = 0 <=>
              \/ args.cn[args.d1] < args.cn[args.d0]
              \/ args.cn[args.d1 + 5] > args.cn[args.d0 + 5])

\* the positions that ber_percent compares, and those where the buffers differ
BerCompared == 1..Min(Len(args.x), Len(args.y))
BerMismatches == {i \in BerCompared : args.x[i] # args.y[i]}

\* C29: for any two bit buffers of any lengths, empty and unequal included,
\* ber_percent is a number with 0 <= ber <= 100, and it is 100 times the
\* number of mismatches among the first min(len) positions divided by the
\* number of those positions.
C29_BerValid ==
    pc = "ber_percent" =>
        /\ returned.den # 0
        /\ 0 <= returned.num /\ returned.num <= 100 * returned.den
        /\ returned.num * Cardinality(BerCompared)
              = 100 * Cardinality(BerMismatches) * returned.den

\* C29, the part that holds: the same of two buffers neither of which is
\* empty.
BerValidNonEmpty ==
    pc = "ber_percent" /\ BerCompared # {} =>
        /\ returned.den # 0
        /\ 0 <= returned.num /\ returned.num <= 100 * returned.den
        /\ returned.num * Cardinality(BerCompared)
              = 100 * Cardinality(BerMismatches) * returned.den

\* the cepstrum coefficients decode has for one segment of the stego, and
\* the largest index it reads with the side-params that encode returned
StegoCepstrumLen ==
    cepstrum_len(method, Len(encoded) \div additional_output.l)
StegoMaxIndex ==
    cepstrum_max_index(method, additional_output.d0, additional_output.d1)

\* C30: every pair of delays with which encode succeeds can be used by
\* decode without an index error: d1, and d1 + 5 for the bipolar variants,
\* is a valid index into the cepstrum of a segment of
\* floor(cover_len / l) samples.
C30_AcceptedDelaysDecodable ==
    pc = "decoded" /\ method \in EchoMethods /\ additional_output.l > 0 =>
        /\ raised # IndexError
        /\ StegoMaxIndex < StegoCepstrumLen

\* C30, the part that holds: the same of the delays whose largest index is
\* below the 1024 samples that encode requires for a bit.
AcceptedShortDelaysDecodable ==
    /\ pc = "decoded" /\ method \in EchoMethods /\ additional_output.l > 0
    /\ StegoMaxIndex < samples_per_bit
    => /\ raised # IndexError
       /\ StegoMaxIndex < StegoCepstrumLen

====
